---- MODULE Spec2Model ----
(***************************************************************************)
(* Model of simulation_trafic.py: a grid road network with one-way rows    *)
(* and columns, traffic lights, pedestrian crossings, manual and automatic *)
(* obstacles, and cars that plan with A* and move one cell per tick.       *)
(*                                                                         *)
(* Positions are pairs <<x, y>> with 0-based coordinates, as in the code.  *)
(* The grid is a sequence of rows, grille[y + 1][x + 1] being the code's   *)
(* grille[y][x].  Python's None is modelled by None (timestamps), by <<>>  *)
(* (a path: the code only tests paths for truth and length) and by <<>>    *)
(* (a predecessor cell).  Time is counted in thirds of a second, the unit  *)
(* in which DELAI_MIN_MOUVEMENT = 1 / 1.5 s is the integer 2.              *)
(***************************************************************************)
EXTENDS Integers, Sequences, FiniteSets, TLC

VARIABLES
    grille,                \* List[List[str]]: the cell symbols
    lignes_directions,     \* row index -> "droite" | "gauche"
    colonnes_directions,   \* column index -> "bas" | "haut"
    feux,                  \* list of traffic lights
    passages_pietons,      \* list of crossings
    pietons_actifs,        \* list of pedestrians crossing
    voitures,              \* list of cars
    prochain_id_voiture,   \* next car id
    temps,                 \* time.time()
    pc,                    \* position of the main loop
    approved_moves,        \* mettre_a_jour_voitures: car id -> approved cell
    journal,               \* what the last step did (observation only)
    histoire,              \* per-car history (observation only)
    requete,               \* planner harness: the query <<depart, arrivee>>
    reponse,               \* planner harness: the path returned
    config                 \* the static configuration the run started from

vars == <<grille, lignes_directions, colonnes_directions, feux, passages_pietons,
          pietons_actifs, voitures, prochain_id_voiture, temps, pc,
          approved_moves, journal, histoire, requete, reponse, config>>

----------------------------------------------------------------------------
(* Grid symbols *)

NON_ROUTIER == "N"
ROUTE == " "
OBSTACLE_MANUEL == "X"
OBSTACLE_AUTO_SYM == "A"
SYMBOLES_NON_PRATICABLES == {NON_ROUTIER, OBSTACLE_MANUEL, OBSTACLE_AUTO_SYM}

None == -1

Abs(n) == IF n < 0 THEN -n ELSE n

\* len(grille[0]) and len(grille)
LargeurDe(g) == Len(g[1])
HauteurDe(g) == Len(g)

\* 0 <= x < taille_x and 0 <= y < taille_y
DansLimites(g, p) ==
    /\ 0 <= p[1] /\ p[1] < LargeurDe(g)
    /\ 0 <= p[2] /\ p[2] < HauteurDe(g)

\* grille[y][x]
Case(g, p) == g[p[2] + 1][p[1] + 1]

\* every (x, y) of the grid
Cellules(g) == (0 .. LargeurDe(g) - 1) \X (0 .. HauteurDe(g) - 1)

\* grille[y][x] = s
PoserSymbole(g, p, s) == [g EXCEPT ![p[2] + 1][p[1] + 1] = s]

----------------------------------------------------------------------------
(* trouver_chemin: A* with the Manhattan heuristic *)

heuristique(a, b) == Abs(a[1] - b[1]) + Abs(a[2] - b[2])

cardinal_directions == << <<0, 1>>, <<0, -1>>, <<1, 0>>, <<-1, 0>> >>

\* variant: the columns are taken as two-way
move_is_allowed_colonnes_libres(c, d, dl, dc) ==
    IF d[2] = 0 /\ d[1] # 0
    THEN \/ (dl[c[2]] = "droite" /\ d[1] = 1)
         \/ (dl[c[2]] = "gauche" /\ d[1] = -1)
    ELSE d[1] = 0 /\ d[2] # 0

\* the one-way test of the neighbour loop, from cell c by (dx, dy)
move_is_allowed(c, d, dl, dc) ==
    IF d[2] = 0 /\ d[1] # 0
    THEN \/ (dl[c[2]] = "droite" /\ d[1] = 1)
         \/ (dl[c[2]] = "gauche" /\ d[1] = -1)
    ELSE IF d[1] = 0 /\ d[2] # 0
    THEN \/ (dc[c[1]] = "bas" /\ d[2] = 1)
         \/ (dc[c[1]] = "haut" /\ d[2] = -1)
    ELSE FALSE

\* Python's tuple order on heap entries (priorite, (x, y))
EntreeAvant(e, f) ==
    \/ e[1] < f[1]
    \/ (e[1] = f[1] /\ e[2][1] < f[2][1])
    \/ (e[1] = f[1] /\ e[2][1] = f[2][1] /\ e[2][2] < f[2][2])

\* variant: the greatest entry of the heap comes out first
heappop_max(ouverte) == CHOOSE e \in ouverte : \A f \in ouverte \ {e} : EntreeAvant(f, e)

\* heapq.heappop: the least entry of the heap
heappop(ouverte) == CHOOSE e \in ouverte : \A f \in ouverte \ {e} : EntreeAvant(e, f)

\* the body of "for dx, dy in cardinal_directions" for the i-th direction on
RECURSIVE ExplorerVoisins(_, _, _, _, _, _, _)
ExplorerVoisins(i, courant, st, g, arrivee, dl, dc) ==
    IF i > Len(cardinal_directions) THEN st
    ELSE LET d == cardinal_directions[i]
             voisin == <<courant[1] + d[1], courant[2] + d[2]>>
             n_cout_g == st.cout_g[courant] + 1
             garde == /\ DansLimites(g, voisin)
                      /\ Case(g, voisin) = ROUTE
                      /\ move_is_allowed(courant, d, dl, dc)
                      /\ \/ voisin \notin DOMAIN st.cout_g
                         \/ n_cout_g < st.cout_g[voisin]
             suivant ==
                 IF garde
                 THEN [cout_g |-> (voisin :> n_cout_g) @@ st.cout_g,
                       precedent |-> (voisin :> courant) @@ st.precedent,
                       ouverte |-> st.ouverte \cup
                           {<<n_cout_g + heuristique(voisin, arrivee), voisin>>}]
                 ELSE st
         IN ExplorerVoisins(i + 1, courant, suivant, g, arrivee, dl, dc)

\* "while temp is not None: chemin.append(temp); temp = precedent.get(temp)",
\* already reversed
RECURSIVE Reconstruire(_, _)
Reconstruire(precedent, temp) ==
    IF temp = <<>> THEN <<>>
    ELSE Append(Reconstruire(precedent, precedent[temp]), temp)

\* "while ouverte"
RECURSIVE BoucleAStar(_, _, _, _, _)
BoucleAStar(st, g, arrivee, dl, dc) ==
    IF st.ouverte = {} THEN <<>>
    ELSE LET e == heappop(st.ouverte)
             courant == e[2]
             reste == [st EXCEPT !.ouverte = st.ouverte \ {e}]
         IN IF courant = arrivee
            THEN Reconstruire(st.precedent, courant)
            ELSE BoucleAStar(ExplorerVoisins(1, courant, reste, g, arrivee, dl, dc),
                             g, arrivee, dl, dc)

\* variant: the symbols of the start and goal cells are not looked at
trouver_chemin_sans_controle_route(g, depart, arrivee, dl, dc) ==
    IF ~(DansLimites(g, depart) /\ DansLimites(g, arrivee)) THEN <<>>
    ELSE IF depart = arrivee THEN <<depart>>
    ELSE BoucleAStar([ouverte |-> {<<heuristique(depart, arrivee), depart>>},
                      precedent |-> (depart :> <<>>),
                      cout_g |-> (depart :> 0)],
                     g, arrivee, dl, dc)

trouver_chemin(g, depart, arrivee, dl, dc) ==
    IF ~(DansLimites(g, depart) /\ DansLimites(g, arrivee)) THEN <<>>
    ELSE IF Case(g, depart) # ROUTE \/ Case(g, arrivee) # ROUTE THEN <<>>
    ELSE IF depart = arrivee THEN <<depart>>
    ELSE BoucleAStar([ouverte |-> {<<heuristique(depart, arrivee), depart>>},
                      precedent |-> (depart :> <<>>),
                      cout_g |-> (depart :> 0)],
                     g, arrivee, dl, dc)

----------------------------------------------------------------------------
(* Simulation parameters.  Durations are in thirds of a second. *)

DELAI_MIN_MOUVEMENT == 2
SEUIL_BLOCAGE == 3
MAX_RECALCUL_ECHECS == 6
DELAI_DISPARITION_APRES_ARRIVEE == 3
duree_vert == 30
duree_orange == 9
duree_rouge == 21

\* NOMBRE_VOITURES_CIBLE of the bounded runs (50 in the program)
NOMBRE_VOITURES_CIBLE == 2
\* NB_PASSAGES_PIETONS of the bounded runs (10 in the program)
NB_PASSAGES_PIETONS == 1
\* A pedestrian's progres is counted in increments of VITESSE_PIETON;
\* PasDeTraversee increments make the progress 1.0 (50 in the program).
PasDeTraversee == 2
\* TAILLE_X_GRILLE, TAILLE_Y_GRILLE of the bounded runs (30 x 15 in the program)
TAILLE_X_GRILLE == 5
TAILLE_Y_GRILLE == 5
\* largest number of seconds-thirds one frame lasts
MaxDt == 1
\* time.time() at which the bounded runs stop
MaxTemps == 7
\* lights of an initial configuration, obstacles present at a time
MaxFeux == 2
MaxObstacles == 1

\* The cells the random draws of the bounded runs land on: start cells and
\* destination cells of generer_une_nouvelle_voiture, cells clicked or
\* picked by the automatic obstacle policy, cells drawn for a crossing.
TiragesDepart == {<<4, 3>>, <<3, 4>>, <<3, 3>>}
TiragesDestination == {<<3, 3>>, <<2, 3>>}
TiragesObstacle == {<<3, 3>>, <<1, 1>>}
TiragesPassage == {<<2, 3>>, <<3, 3>>}

----------------------------------------------------------------------------
(* Grid and environment *)

\* creer_grille then definir_reseau_routier
definir_reseau_routier(taille_x, taille_y) ==
    [y \in 1 .. taille_y |-> [x \in 1 .. taille_x |->
        IF (x - 1) % 3 = 0 \/ (y - 1) % 3 = 0 THEN ROUTE ELSE NON_ROUTIER]]

\* creer_directions_routes: (directions_lignes, directions_colonnes)
creer_directions_lignes(taille_y) ==
    [y \in 0 .. taille_y - 1 |-> IF y % 2 = 0 THEN "droite" ELSE "gauche"]
creer_directions_colonnes(taille_x) ==
    [x \in 0 .. taille_x - 1 |-> IF x % 2 = 0 THEN "bas" ELSE "haut"]

Voisines(p) == {<<p[1], p[2] + 1>>, <<p[1], p[2] - 1>>,
                <<p[1] + 1, p[2]>>, <<p[1] - 1, p[2]>>}

est_case_escapable(pos, g) ==
    /\ DansLimites(g, pos)
    /\ Case(g, pos) = ROUTE
    /\ \E n \in Voisines(pos) : DansLimites(g, n) /\ Case(g, n) = ROUTE

\* {feu["position"] for feu in feux}
PositionsFeux(fx) == {fx[i].position : i \in 1 .. Len(fx)}

\* variant: the lights are not looked at
PeutPoserObstacle_sans_feux(g, p, fx) ==
    /\ Case(g, p) = ROUTE
    /\ Case(g, p) \notin SYMBOLES_NON_PRATICABLES

\* the test shared by ajouter_obstacle_manuel and ajouter_obstacle_auto
PeutPoserObstacle(g, p, fx) ==
    /\ Case(g, p) = ROUTE
    /\ p \notin PositionsFeux(fx)
    /\ Case(g, p) \notin SYMBOLES_NON_PRATICABLES

\* variant: any cell without light or obstacle takes a manual obstacle
ajouter_obstacle_manuel_hors_route(g, p, fx) ==
    IF /\ p \notin PositionsFeux(fx)
       /\ Case(g, p) \notin {OBSTACLE_MANUEL, OBSTACLE_AUTO_SYM}
    THEN [ok |-> TRUE, grille |-> PoserSymbole(g, p, OBSTACLE_MANUEL)]
    ELSE [ok |-> FALSE, grille |-> g]

\* ajouter_obstacle_manuel: [ok, grille]
ajouter_obstacle_manuel(g, p, fx) ==
    IF PeutPoserObstacle(g, p, fx)
    THEN [ok |-> TRUE, grille |-> PoserSymbole(g, p, OBSTACLE_MANUEL)]
    ELSE [ok |-> FALSE, grille |-> g]

\* ajouter_obstacle_auto: [ok, grille]
ajouter_obstacle_auto(g, p, fx) ==
    IF PeutPoserObstacle(g, p, fx)
    THEN [ok |-> TRUE, grille |-> PoserSymbole(g, p, OBSTACLE_AUTO_SYM)]
    ELSE [ok |-> FALSE, grille |-> g]

\* variant: the removal is reported but the cell is not written
retirer_obstacle_manuel_sans_ecriture(g, p) ==
    IF Case(g, p) = OBSTACLE_MANUEL
    THEN [ok |-> TRUE, grille |-> g]
    ELSE [ok |-> FALSE, grille |-> g]

\* variant: any obstacle, manual or automatic, is removed
retirer_obstacle_manuel_tout_obstacle(g, p) ==
    IF Case(g, p) \in {OBSTACLE_MANUEL, OBSTACLE_AUTO_SYM}
    THEN [ok |-> TRUE, grille |-> PoserSymbole(g, p, ROUTE)]
    ELSE [ok |-> FALSE, grille |-> g]

\* the right click of the main loop on cell p: [ok, grille]
retirer_obstacle_manuel(g, p) ==
    IF Case(g, p) = OBSTACLE_MANUEL
    THEN [ok |-> TRUE, grille |-> PoserSymbole(g, p, ROUTE)]
    ELSE [ok |-> FALSE, grille |-> g]

\* p in chemin
DansChemin(p, chemin) == \E i \in 1 .. Len(chemin) : chemin[i] = p

\* the test of forcer_recalcul_si_affecte for one car
EstAffectee(v, obstacle_pos) ==
    /\ v.temps_arrivee = None
    /\ v.position # obstacle_pos
    /\ (DansChemin(obstacle_pos, v.chemin) \/ v.destination = obstacle_pos)

\* variant: only the cars whose destination is the obstacle cell are reset
forcer_recalcul_destination_seule(obstacle_pos, vs) ==
    [i \in 1 .. Len(vs) |->
        IF /\ vs[i].temps_arrivee = None
           /\ vs[i].position # obstacle_pos
           /\ vs[i].destination = obstacle_pos
        THEN [vs[i] EXCEPT !.chemin = <<>>, !.recalcul_echecs = 0]
        ELSE vs[i]]

\* variant: a car that is reset is marked blocked at once
forcer_recalcul_marque_bloquee(obstacle_pos, vs) ==
    [i \in 1 .. Len(vs) |->
        IF EstAffectee(vs[i], obstacle_pos)
        THEN [vs[i] EXCEPT !.chemin = <<>>, !.recalcul_echecs = 0,
                           !.bloquee_depuis = vs[i].dernier_deplacement]
        ELSE vs[i]]

\* variant: the cars are left as they are
forcer_recalcul_sans_effet(obstacle_pos, vs) == vs

forcer_recalcul_si_affecte(obstacle_pos, vs) ==
    [i \in 1 .. Len(vs) |->
        IF EstAffectee(vs[i], obstacle_pos)
        THEN [vs[i] EXCEPT !.chemin = <<>>, !.recalcul_echecs = 0]
        ELSE vs[i]]

----------------------------------------------------------------------------
(* Traffic lights *)

\* the light initialiser_feux_repartis_sur_routes appends at pos when
\* (time.time() - offset) % temps_total_cycle is d and time.time() is t
FeuInitial(pos, d, t) ==
    LET etat_initial == IF d <= duree_vert THEN "vert"
                        ELSE IF d <= duree_vert + duree_orange THEN "orange"
                        ELSE "rouge"
        temps_ecoule_dans_etat ==
            IF d <= duree_vert THEN d
            ELSE IF d <= duree_vert + duree_orange THEN d - duree_vert
            ELSE d - (duree_vert + duree_orange)
        duree_actuelle_initiale ==
            IF d <= duree_vert THEN duree_vert - temps_ecoule_dans_etat
            ELSE IF d <= duree_vert + duree_orange
            THEN duree_orange - temps_ecoule_dans_etat
            ELSE duree_rouge - temps_ecoule_dans_etat
    IN [position |-> pos, etat |-> etat_initial,
        duree_vert |-> duree_vert, duree_orange |-> duree_orange,
        duree_rouge |-> duree_rouge,
        duree_actuelle |-> duree_actuelle_initiale,
        dernier_changement |-> t - d]

\* intersections_candidates: Road cells with at least 3 Road cells among
\* themselves and their four neighbours (all Road cells when there is none)
intersections_candidates(g) ==
    LET inter == {p \in Cellules(g) :
                    /\ Case(g, p) = ROUTE
                    /\ Cardinality({n \in Voisines(p) \cup {p} :
                           DansLimites(g, n) /\ Case(g, n) = ROUTE}) >= 3}
    IN IF inter # {} THEN inter
       ELSE {p \in Cellules(g) : Case(g, p) = ROUTE}

\* peut_placer for pos when the lights already placed are at S
peut_placer(g, S, pos) ==
    /\ Cardinality({q \in S : q[2] = pos[2]}) < (IF LargeurDe(g) \div 15 > 1 THEN LargeurDe(g) \div 15 ELSE 1)
    /\ Cardinality({q \in S : q[1] = pos[1]}) < (IF HauteurDe(g) \div 8 > 1 THEN HauteurDe(g) \div 8 ELSE 1)
    /\ pos \notin S
    /\ Case(g, pos) \notin {OBSTACLE_AUTO_SYM, OBSTACLE_MANUEL}

\* The candidates are shuffled and taken greedily, so the positions lit are
\* the sets to which no candidate can be added, every light of which could
\* be placed after the others.
PlacementsFeux(g) ==
    {S \in SUBSET intersections_candidates(g) :
        /\ \A p \in S : peut_placer(g, S \ {p}, p)
        /\ \A p \in intersections_candidates(g) \ S : ~peut_placer(g, S, p)}

\* variant: an orange light turns green
FeuSuivant_orange_vers_vert(feu, temps_actuel) ==
    IF temps_actuel - feu.dernier_changement > feu.duree_actuelle
    THEN IF feu.etat = "vert"
         THEN [feu EXCEPT !.etat = "orange", !.duree_actuelle = feu.duree_orange,
                          !.dernier_changement = temps_actuel]
         ELSE IF feu.etat = "orange"
         THEN [feu EXCEPT !.etat = "vert", !.duree_actuelle = feu.duree_vert,
                          !.dernier_changement = temps_actuel]
         ELSE IF feu.etat = "rouge"
         THEN [feu EXCEPT !.etat = "vert", !.duree_actuelle = feu.duree_vert,
                          !.dernier_changement = temps_actuel]
         ELSE [feu EXCEPT !.dernier_changement = temps_actuel]
    ELSE feu

\* mettre_a_jour_feux, for one light
\* variant: a light two phases late is taken two phases on
FeuSuivant_rattrapage(feu, temps_actuel) ==
    LET DureeDe(e) == IF e = "vert" THEN feu.duree_vert
                      ELSE IF e = "orange" THEN feu.duree_orange
                      ELSE feu.duree_rouge
        Apres(e) == IF e = "vert" THEN "orange"
                    ELSE IF e = "orange" THEN "rouge" ELSE "vert"
        retard == temps_actuel - feu.dernier_changement
    IN IF retard > feu.duree_actuelle + DureeDe(Apres(feu.etat))
       THEN [feu EXCEPT !.etat = Apres(Apres(feu.etat)),
                        !.duree_actuelle = DureeDe(Apres(Apres(feu.etat))),
                        !.dernier_changement = temps_actuel]
       ELSE IF retard > feu.duree_actuelle
       THEN [feu EXCEPT !.etat = Apres(feu.etat),
                        !.duree_actuelle = DureeDe(Apres(feu.etat)),
                        !.dernier_changement = temps_actuel]
       ELSE feu

FeuSuivant(feu, temps_actuel) ==
    IF temps_actuel - feu.dernier_changement > feu.duree_actuelle
    THEN IF feu.etat = "vert"
         THEN [feu EXCEPT !.etat = "orange", !.duree_actuelle = feu.duree_orange,
                          !.dernier_changement = temps_actuel]
         ELSE IF feu.etat = "orange"
         THEN [feu EXCEPT !.etat = "rouge", !.duree_actuelle = feu.duree_rouge,
                          !.dernier_changement = temps_actuel]
         ELSE IF feu.etat = "rouge"
         THEN [feu EXCEPT !.etat = "vert", !.duree_actuelle = feu.duree_vert,
                          !.dernier_changement = temps_actuel]
         ELSE [feu EXCEPT !.dernier_changement = temps_actuel]
    ELSE feu

mettre_a_jour_feux(fx, temps_actuel) ==
    [i \in 1 .. Len(fx) |-> FeuSuivant(fx[i], temps_actuel)]

----------------------------------------------------------------------------
(* Crossings and pedestrians *)

\* the crossing initialiser_passages_pietons_sur_routes makes of pos, when
\* pos is a good spot: [ok, passage]
PassageEn(g, pos, fx, deja) ==
    LET px == pos[1]
        py == pos[2]
        libre == /\ px >= 1 /\ px <= LargeurDe(g) - 2
                 /\ py >= 1 /\ py <= HauteurDe(g) - 2
                 /\ Case(g, pos) = ROUTE
                 /\ pos \notin PositionsFeux(fx)
                 /\ Case(g, pos) \notin {OBSTACLE_MANUEL, OBSTACLE_AUTO_SYM}
                 /\ pos \notin deja
        horizontal == /\ Case(g, <<px - 1, py>>) = ROUTE
                      /\ Case(g, <<px + 1, py>>) = ROUTE
        vertical == /\ Case(g, <<px, py - 1>>) = ROUTE
                    /\ Case(g, <<px, py + 1>>) = ROUTE
    IN IF libre /\ horizontal
       THEN [ok |-> TRUE, passage |-> [position |-> pos, orientation |-> "horizontal"]]
       ELSE IF libre /\ vertical
       THEN [ok |-> TRUE, passage |-> [position |-> pos, orientation |-> "vertical"]]
       ELSE [ok |-> FALSE, passage |-> [position |-> pos, orientation |-> "aucune"]]

\* {p['position'] for p in passages}
PositionsPassages(ps) == {ps[i].position : i \in 1 .. Len(ps)}

\* the lists of crossings the initialiser can return: each drawn cell is
\* kept when it is a good spot not yet taken, until n are placed or the
\* draws hold no good spot any more
RECURSIVE PassagesPossibles(_, _, _, _)
PassagesPossibles(g, fx, n, ps) ==
    LET bons == {pos \in Cellules(g) \cap TiragesPassage :
                    PassageEn(g, pos, fx, PositionsPassages(ps)).ok}
    IN IF Len(ps) >= n \/ bons = {} THEN {ps}
       ELSE UNION {PassagesPossibles(g, fx, n,
                       Append(ps, PassageEn(g, pos, fx, PositionsPassages(ps)).passage)) :
                   pos \in bons}

\* any(tuple(v['position']) == pos for v in voitures if temps_arrivee is None)
voiture_presente_sur_passage(pos, vs) ==
    \E i \in 1 .. Len(vs) : vs[i].position = pos /\ vs[i].temps_arrivee = None

\* variant: every pedestrian advances, a car on its crossing or not
AvancerPietons_sans_blocage(pietons, vs) ==
    SelectSeq([i \in 1 .. Len(pietons) |->
                  [pietons[i] EXCEPT !.progres = pietons[i].progres + 1]],
              LAMBDA p : p.progres < PasDeTraversee)

\* step 1 of mettre_a_jour_pietons: advance, then keep those not across
AvancerPietons(pietons, vs) ==
    LET avance(p) == IF ~voiture_presente_sur_passage(p.passage_pos, vs)
                     THEN [p EXCEPT !.progres = @ + 1] ELSE p
        avances == [i \in 1 .. Len(pietons) |-> avance(pietons[i])]
    IN SelectSeq(avances, LAMBDA p : p.progres < PasDeTraversee)

\* variant: a pedestrian appears whatever cars stand on the crossing
ApparitionPieton_sans_controle_voiture(passage_choisi, pietons, vs) ==
    LET cible == passage_choisi.position
    IN IF ~(\E i \in 1 .. Len(pietons) : pietons[i].passage_pos = cible)
       THEN Append(pietons, [passage_pos |-> cible,
                             orientation |-> passage_choisi.orientation,
                             progres |-> 0])
       ELSE pietons

\* step 2 of mettre_a_jour_pietons once the draw passed and chose a crossing
ApparitionPieton(passage_choisi, pietons, vs) ==
    LET cible == passage_choisi.position
        passage_deja_occupe_par_pieton ==
            \E i \in 1 .. Len(pietons) : pietons[i].passage_pos = cible
        passage_deja_occupe_par_voiture ==
            \E i \in 1 .. Len(vs) : vs[i].position = cible
    IN IF ~passage_deja_occupe_par_pieton /\ ~passage_deja_occupe_par_voiture
       THEN Append(pietons, [passage_pos |-> cible,
                             orientation |-> passage_choisi.orientation,
                             progres |-> 0])
       ELSE pietons

\* mettre_a_jour_pietons; tirage = 0 when random.random() is not below the
\* spawn probability, else the index random.choice draws
mettre_a_jour_pietons(passages, pietons, vs, tirage) ==
    LET restants == AvancerPietons(pietons, vs)
    IN IF Len(passages) > 0 /\ tirage > 0
       THEN ApparitionPieton(passages[tirage], restants, vs)
       ELSE restants

\* variant: only a red light stops a car, an orange one lets it through
est_deplacement_valide_rouge_seul(pos, fx, pietons, g) ==
    IF ~DansLimites(g, pos) THEN FALSE
    ELSE IF Case(g, pos) # ROUTE THEN FALSE
    ELSE IF \E i \in 1 .. Len(fx) : fx[i].position = pos /\ fx[i].etat = "rouge"
    THEN FALSE
    ELSE IF \E i \in 1 .. Len(pietons) :
                pietons[i].passage_pos = pos /\ pietons[i].progres < PasDeTraversee
    THEN FALSE
    ELSE TRUE

est_deplacement_valide(pos, fx, pietons, g) ==
    IF ~DansLimites(g, pos) THEN FALSE
    ELSE IF Case(g, pos) # ROUTE THEN FALSE
    ELSE IF \E i \in 1 .. Len(fx) : fx[i].position = pos /\ fx[i].etat # "vert"
    THEN FALSE
    ELSE IF \E i \in 1 .. Len(pietons) :
                pietons[i].passage_pos = pos /\ pietons[i].progres < PasDeTraversee
    THEN FALSE
    ELSE TRUE

----------------------------------------------------------------------------
(* mettre_a_jour_voitures *)

\* PHASE 0: mark the arrivals, then drop the cars arrived long enough ago
MarquerArrivee(v, temps_actuel) ==
    IF v.temps_arrivee = None /\ v.position = v.destination
    THEN [v EXCEPT !.temps_arrivee = temps_actuel, !.chemin = <<>>,
                   !.bloquee_depuis = None, !.recalcul_echecs = 0]
    ELSE v

\* variant: an arrived car is kept while the delay is not exceeded
ResteApresArrivee_inclusif(v, temps_actuel) ==
    \/ v.temps_arrivee = None
    \/ temps_actuel - v.temps_arrivee <= DELAI_DISPARITION_APRES_ARRIVEE

ResteApresArrivee(v, temps_actuel) ==
    \/ v.temps_arrivee = None
    \/ temps_actuel - v.temps_arrivee < DELAI_DISPARITION_APRES_ARRIVEE

GererArrivees(vs, temps_actuel) ==
    SelectSeq([i \in 1 .. Len(vs) |-> MarquerArrivee(vs[i], temps_actuel)],
              LAMBDA v : ResteApresArrivee(v, temps_actuel))

\* PHASE 1: cars_needing_pathfind and the replan of one of them
cars_needing_pathfind(v, temps_actuel) ==
    /\ v.temps_arrivee = None
    /\ \/ v.chemin = <<>>
       \/ (v.bloquee_depuis # None /\ temps_actuel - v.bloquee_depuis > SEUIL_BLOCAGE)

\* variant: a found path does not unset bloquee_depuis
Recalculer_sans_effacer(v, g, dl, dc, temps_actuel) ==
    LET path_trouve == trouver_chemin(g, v.position, v.destination, dl, dc)
    IN IF Len(path_trouve) > 1
       THEN [v EXCEPT !.chemin = Tail(path_trouve), !.recalcul_echecs = 0]
       ELSE [v EXCEPT !.chemin = <<>>,
                      !.bloquee_depuis = IF @ = None THEN temps_actuel ELSE @]

\* variant: every failed replan writes the current time to bloquee_depuis
Recalculer_horodate_toujours(v, g, dl, dc, temps_actuel) ==
    LET path_trouve == trouver_chemin(g, v.position, v.destination, dl, dc)
    IN IF Len(path_trouve) > 1
       THEN [v EXCEPT !.chemin = Tail(path_trouve), !.bloquee_depuis = None,
                      !.recalcul_echecs = 0]
       ELSE [v EXCEPT !.chemin = <<>>, !.bloquee_depuis = temps_actuel]

Recalculer(v, g, dl, dc, temps_actuel) ==
    LET path_trouve == trouver_chemin(g, v.position, v.destination, dl, dc)
    IN IF Len(path_trouve) > 1
       THEN [v EXCEPT !.chemin = Tail(path_trouve), !.bloquee_depuis = None,
                      !.recalcul_echecs = 0]
       ELSE [v EXCEPT !.chemin = <<>>,
                      !.bloquee_depuis = IF @ = None THEN temps_actuel ELSE @]

RecalculerChemins(vs, g, dl, dc, temps_actuel) ==
    [i \in 1 .. Len(vs) |->
        IF cars_needing_pathfind(vs[i], temps_actuel)
        THEN Recalculer(vs[i], g, dl, dc, temps_actuel) ELSE vs[i]]

\* variant: the cells of arrived cars are held as well
projected_occupied_cells_avec_arrivees(vs) ==
    {vs[i].position : i \in 1 .. Len(vs)}

\* PHASE 2: the cells held at the start of the resolution
projected_occupied_cells(vs) ==
    {vs[i].position : i \in {j \in 1 .. Len(vs) : vs[j].temps_arrivee = None}}

\* variant: the delay since the last move is not looked at
voitures_eligibles_pour_mouvement_sans_delai(v, temps_actuel) ==
    /\ v.temps_arrivee = None
    /\ v.chemin # <<>>

voitures_eligibles_pour_mouvement(v, temps_actuel) ==
    /\ v.temps_arrivee = None
    /\ v.chemin # <<>>
    /\ temps_actuel - v.dernier_deplacement >= DELAI_MIN_MOUVEMENT

\* indexes (in list order) of the eligible cars with, without bloquee_depuis
IndexPrioritaires(vs, temps_actuel) ==
    {i \in 1 .. Len(vs) : /\ voitures_eligibles_pour_mouvement(vs[i], temps_actuel)
                          /\ vs[i].bloquee_depuis # None}
IndexRestants(vs, temps_actuel) ==
    {i \in 1 .. Len(vs) : /\ voitures_eligibles_pour_mouvement(vs[i], temps_actuel)
                          /\ vs[i].bloquee_depuis = None}

\* prioritized_cars.sort(key=bloquee_depuis): a stable ascending sort
RECURSIVE TriPrioritaires(_, _)
TriPrioritaires(vs, I) ==
    IF I = {} THEN <<>>
    ELSE LET premier == CHOOSE i \in I : \A j \in I \ {i} :
                 \/ vs[i].bloquee_depuis < vs[j].bloquee_depuis
                 \/ (vs[i].bloquee_depuis = vs[j].bloquee_depuis /\ i < j)
         IN <<premier>> \o TriPrioritaires(vs, I \ {premier})

\* the orders random.shuffle can give to the cars of I
Melanges(I) ==
    {o \in [1 .. Cardinality(I) -> I] : \A i, j \in DOMAIN o : o[i] = o[j] => i = j}

\* variant: an approved move does not reserve its cell
RECURSIVE ResoudreMouvements_sans_reservation(_, _, _, _, _, _)
ResoudreMouvements_sans_reservation(ordre, k, r, fx, pietons, g) ==
    IF k > Len(ordre) THEN r
    ELSE LET i == ordre[k]
             v == r.voitures[i]
             next_pos == v.chemin[1]
             approuve == /\ next_pos \notin r.occupees
                         /\ est_deplacement_valide(next_pos, fx, pietons, g)
             suite == IF approuve
                      THEN [voitures |-> [r.voitures EXCEPT ![i].bloquee_depuis = None],
                            occupees |-> r.occupees,
                            moves |-> (v.id :> next_pos) @@ r.moves]
                      ELSE r
         IN ResoudreMouvements_sans_reservation(ordre, k + 1, suite, fx, pietons, g)

\* variant: an approved move frees the cell the car leaves
RECURSIVE ResoudreMouvements_libere_depart(_, _, _, _, _, _)
ResoudreMouvements_libere_depart(ordre, k, r, fx, pietons, g) ==
    IF k > Len(ordre) THEN r
    ELSE LET i == ordre[k]
             v == r.voitures[i]
             next_pos == v.chemin[1]
             approuve == /\ next_pos \notin r.occupees
                         /\ est_deplacement_valide(next_pos, fx, pietons, g)
             suite == IF approuve
                      THEN [voitures |-> [r.voitures EXCEPT ![i].bloquee_depuis = None],
                            occupees |-> (r.occupees \ {v.position}) \cup {next_pos},
                            moves |-> (v.id :> next_pos) @@ r.moves]
                      ELSE r
         IN ResoudreMouvements_libere_depart(ordre, k + 1, suite, fx, pietons, g)

\* the loop over voitures_a_resoudre_mouvement, from its k-th car on;
\* r = [voitures, occupees, moves]
RECURSIVE ResoudreMouvements(_, _, _, _, _, _)
ResoudreMouvements(ordre, k, r, fx, pietons, g) ==
    IF k > Len(ordre) THEN r
    ELSE LET i == ordre[k]
             v == r.voitures[i]
             next_pos == v.chemin[1]
             approuve == /\ next_pos \notin r.occupees
                         /\ est_deplacement_valide(next_pos, fx, pietons, g)
             suite == IF approuve
                      THEN [voitures |-> [r.voitures EXCEPT ![i].bloquee_depuis = None],
                            occupees |-> r.occupees \cup {next_pos},
                            moves |-> (v.id :> next_pos) @@ r.moves]
                      ELSE r
         IN ResoudreMouvements(ordre, k + 1, suite, fx, pietons, g)

\* variant: the time of the move is written to bloquee_depuis as well
AppliquerMouvement_horodatage_blocage(v, moves, temps_actuel) ==
    IF v.id \in DOMAIN moves
    THEN [v EXCEPT !.position = moves[v.id],
                   !.chemin = IF @ # <<>> /\ @[1] = moves[v.id] THEN Tail(@) ELSE @,
                   !.dernier_deplacement = temps_actuel,
                   !.bloquee_depuis = temps_actuel]
    ELSE v

\* variant: the cell moved to is not removed from the path
AppliquerMouvement_sans_pop(v, moves, temps_actuel) ==
    IF v.id \in DOMAIN moves
    THEN [v EXCEPT !.position = moves[v.id],
                   !.dernier_deplacement = temps_actuel]
    ELSE v

\* variant: a move does not refresh dernier_deplacement
AppliquerMouvement_sans_horodatage(v, moves, temps_actuel) ==
    IF v.id \in DOMAIN moves
    THEN [v EXCEPT !.position = moves[v.id],
                   !.chemin = IF @ # <<>> /\ @[1] = moves[v.id] THEN Tail(@) ELSE @]
    ELSE v

\* PHASE 3: the approved move of one car
AppliquerMouvement(v, moves, temps_actuel) ==
    IF v.id \in DOMAIN moves
    THEN [v EXCEPT !.position = moves[v.id],
                   !.chemin = IF @ # <<>> /\ @[1] = moves[v.id] THEN Tail(@) ELSE @,
                   !.dernier_deplacement = temps_actuel]
    ELSE v

\* the whole function, for the order melange of the shuffled cars:
\* [voitures, moves, occupees]
mettre_a_jour_voitures(vs, g, fx, dl, dc, pietons, temps_actuel, melange) ==
    LET restantes == GererArrivees(vs, temps_actuel)
        planifiees == RecalculerChemins(restantes, g, dl, dc, temps_actuel)
        ordre == TriPrioritaires(planifiees, IndexPrioritaires(planifiees, temps_actuel))
                 \o melange
        r == ResoudreMouvements(ordre, 1,
                 [voitures |-> planifiees,
                  occupees |-> projected_occupied_cells(planifiees),
                  moves |-> <<>>],
                 fx, pietons, g)
    IN [voitures |-> [i \in 1 .. Len(r.voitures) |->
                         AppliquerMouvement(r.voitures[i], r.moves, temps_actuel)],
        moves |-> r.moves,
        occupees |-> r.occupees]

\* the orders the shuffle can give in this call
MelangesPossibles(vs, g, dl, dc, temps_actuel) ==
    Melanges(IndexRestants(
        RecalculerChemins(GererArrivees(vs, temps_actuel), g, dl, dc, temps_actuel),
        temps_actuel))

----------------------------------------------------------------------------
(* Car generation *)

\* positions_interdites_perm of generer_une_nouvelle_voiture and of
\* trouver_nouvelle_destination_valide
positions_interdites_perm(g, fx) ==
    PositionsFeux(fx) \cup {p \in Cellules(g) : Case(g, p) \in SYMBOLES_NON_PRATICABLES}

\* variant: a start draw accepts a cell another car stands on
DepartsPossibles_sans_occupation(g, fx, vs) ==
    {p \in Cellules(g) \cap TiragesDepart :
        /\ Case(g, p) = ROUTE
        /\ p \notin positions_interdites_perm(g, fx)
        /\ est_case_escapable(p, g)}

\* the cells a start draw accepts
DepartsPossibles(g, fx, vs) ==
    {p \in Cellules(g) \cap TiragesDepart :
        /\ Case(g, p) = ROUTE
        /\ p \notin positions_interdites_perm(g, fx)
        /\ p \notin projected_occupied_cells(vs)
        /\ est_case_escapable(p, g)}

\* the cells a destination draw accepts from pos_initiale
DestinationsPossibles(g, fx, dl, dc, pos_initiale) ==
    {p \in Cellules(g) \cap TiragesDestination :
        /\ Case(g, p) = ROUTE
        /\ p # pos_initiale
        /\ p \notin positions_interdites_perm(g, fx)
        /\ est_case_escapable(p, g)
        /\ Len(trouver_chemin(g, pos_initiale, p, dl, dc)) > 1}

\* the car generer_une_nouvelle_voiture returns for the pair drawn
nouvelle_voiture(nouvel_id, pos_initiale, dest, g, dl, dc, maintenant) ==
    [id |-> nouvel_id,
     position |-> pos_initiale,
     destination |-> dest,
     chemin |-> Tail(trouver_chemin(g, pos_initiale, dest, dl, dc)),
     temps_arrivee |-> None,
     dernier_deplacement |-> maintenant,
     bloquee_depuis |-> None,
     recalcul_echecs |-> 0]

\* variant: the new car takes its rank in the list as id
generer_une_nouvelle_voiture_id_par_rang(g, fx, dl, dc, vs, prochain_id, maintenant) ==
    LET trouvees ==
            UNION {{[ok |-> TRUE,
                     voiture |-> nouvelle_voiture(Len(vs) + 1, depart, dest, g, dl, dc,
                                                  maintenant)] :
                       dest \in DestinationsPossibles(g, fx, dl, dc, depart)} :
                   depart \in DepartsPossibles(g, fx, vs)}
    IN IF trouvees # {} THEN trouvees ELSE {[ok |-> FALSE, voiture |-> <<>>]}

\* The results generer_une_nouvelle_voiture can give: a car for any start
\* and destination its draws accept, or None (ok false) when the retries
\* run out, which they do when the draws hold no acceptable pair.
generer_une_nouvelle_voiture(g, fx, dl, dc, vs, prochain_id, maintenant) ==
    LET trouvees ==
            UNION {{[ok |-> TRUE,
                     voiture |-> nouvelle_voiture(prochain_id, depart, dest, g, dl, dc,
                                                  maintenant)] :
                       dest \in DestinationsPossibles(g, fx, dl, dc, depart)} :
                   depart \in DepartsPossibles(g, fx, vs)}
    IN IF trouvees # {} THEN trouvees ELSE {[ok |-> FALSE, voiture |-> <<>>]}

\* trouver_nouvelle_destination_valide: the destinations its draws accept
\* (it returns one of them, or None when its 300 draws find none)
trouver_nouvelle_destination_valide(v, g, fx, dl, dc) ==
    {p \in Cellules(g) :
        /\ Case(g, p) = ROUTE
        /\ p # v.position
        /\ p \notin positions_interdites_perm(g, fx)
        /\ est_case_escapable(p, g)
        /\ Len(trouver_chemin(g, v.position, p, dl, dc)) > 1}

----------------------------------------------------------------------------
(* The main loop *)

\* offsets into the light cycle drawn at initialisation: green for the whole
\* cycle start, green about to end, orange, red
DecalagesInit == {13, 35}

\* the lists of lights initialiser_feux_repartis_sur_routes can return at
\* time t, in the order of S
RECURSIVE FeuxDe(_, _)
FeuxDe(S, t) ==
    IF S = {} THEN {<<>>}
    ELSE LET pos == CHOOSE p \in S : \A q \in S \ {p} :
                        p[2] < q[2] \/ (p[2] = q[2] /\ p[1] < q[1])
         IN {<<FeuInitial(pos, d, t)>> \o reste :
                d \in DecalagesInit, reste \in FeuxDe(S \ {pos}, t)}

\* the observation kept of one car: failed replans in a row, and the cell of
\* the manual obstacle that emptied its path
HistoireVide == [echecs |-> 0, invalide |-> <<>>]

\* the static configuration: grid size, crossing count, target population
ConfigurationDe(taille_x, taille_y, n_passages, n_voitures) ==
    [taille_x |-> taille_x, taille_y |-> taille_y,
     n_passages |-> n_passages, n_voitures |-> n_voitures]

\* module initialisation up to the crossings; the cars are generated next
Init ==
    /\ grille = definir_reseau_routier(TAILLE_X_GRILLE, TAILLE_Y_GRILLE)
    /\ lignes_directions = creer_directions_lignes(TAILLE_Y_GRILLE)
    /\ colonnes_directions = creer_directions_colonnes(TAILLE_X_GRILLE)
    /\ temps = 0
    /\ \E S \in PlacementsFeux(grille) :
          /\ Cardinality(S) <= MaxFeux
          /\ feux \in FeuxDe(S, temps)
    /\ passages_pietons \in PassagesPossibles(grille, feux, NB_PASSAGES_PIETONS, <<>>)
    /\ pietons_actifs = <<>>
    /\ voitures = <<>>
    /\ prochain_id_voiture = 1
    /\ pc = "init"
    /\ approved_moves = <<>>
    /\ journal = [op |-> "init"]
    /\ histoire = <<>>
    /\ requete = <<>>
    /\ reponse = <<>>
    /\ config = ConfigurationDe(TAILLE_X_GRILLE, TAILLE_Y_GRILLE,
                                NB_PASSAGES_PIETONS, NOMBRE_VOITURES_CIBLE)

\* variant: the generation loop does not stop at the target population
RECURSIVE BoucleGeneration_sans_cible(_, _, _, _, _)
BoucleGeneration_sans_cible(vs, prochain_id, n, cible, arret) ==
    IF n = 0
    THEN {[voitures |-> vs, prochain_id |-> prochain_id]}
    ELSE UNION {IF r.ok
                THEN BoucleGeneration_sans_cible(Append(vs, r.voiture), prochain_id + 1,
                                                 n - 1, cible, arret)
                ELSE IF arret
                THEN {[voitures |-> vs, prochain_id |-> prochain_id]}
                ELSE BoucleGeneration_sans_cible(vs, prochain_id, n - 1, cible, arret) :
                r \in generer_une_nouvelle_voiture(grille, feux, lignes_directions,
                         colonnes_directions, vs, prochain_id, temps)}

\* the outcomes of n more attempts of a generation loop that stops at cible
\* cars (or, when arret, at the first failed attempt): [voitures, prochain_id]
RECURSIVE BoucleGeneration(_, _, _, _, _)
BoucleGeneration(vs, prochain_id, n, cible, arret) ==
    IF Len(vs) >= cible \/ n = 0
    THEN {[voitures |-> vs, prochain_id |-> prochain_id]}
    ELSE UNION {IF r.ok
                THEN BoucleGeneration(Append(vs, r.voiture), prochain_id + 1,
                                      n - 1, cible, arret)
                ELSE IF arret
                THEN {[voitures |-> vs, prochain_id |-> prochain_id]}
                ELSE BoucleGeneration(vs, prochain_id, n - 1, cible, arret) :
                r \in generer_une_nouvelle_voiture(grille, feux, lignes_directions,
                         colonnes_directions, vs, prochain_id, temps)}

\* the history of the cars of vs, new cars starting with an empty one
HistoireDe(vs, h) ==
    [id \in {vs[i].id : i \in 1 .. Len(vs)} |->
        IF id \in DOMAIN h THEN h[id] ELSE HistoireVide]

\* generer_voitures_initiales(..., NOMBRE_VOITURES_CIBLE)
GenererVoituresInitiales(cible) ==
    /\ pc = "init"
    /\ \E r \in BoucleGeneration(<<>>, prochain_id_voiture, 2 * cible, cible, FALSE) :
          /\ voitures' = r.voitures
          /\ prochain_id_voiture' = r.prochain_id
          /\ histoire' = HistoireDe(r.voitures, histoire)
    /\ pc' = "evenements"
    /\ journal' = [op |-> "generer_voitures_initiales"]
    /\ UNCHANGED <<grille, lignes_directions, colonnes_directions, config, feux,
                   passages_pietons, pietons_actifs, temps, approved_moves,
                   requete, reponse>>

\* number of obstacle cells of the grid
NbObstacles(g) ==
    Cardinality({p \in Cellules(g) : Case(g, p) \in {OBSTACLE_MANUEL, OBSTACLE_AUTO_SYM}})

\* MOUSEBUTTONDOWN, button 1, on cell c
ClicGauche(c) ==
    /\ pc = "evenements"
    /\ DansLimites(grille, c)
    /\ NbObstacles(grille) < MaxObstacles \/ ~PeutPoserObstacle(grille, c, feux)
    /\ LET r == ajouter_obstacle_manuel(grille, c, feux)
       IN /\ grille' = r.grille
          /\ voitures' = IF r.ok THEN forcer_recalcul_si_affecte(c, voitures)
                         ELSE voitures
          /\ histoire' = IF r.ok
                         THEN [id \in DOMAIN histoire |->
                                 IF \E i \in 1 .. Len(voitures) :
                                       voitures[i].id = id /\ EstAffectee(voitures[i], c)
                                 THEN [histoire[id] EXCEPT !.invalide = c]
                                 ELSE histoire[id]]
                         ELSE histoire
          /\ journal' = [op |-> "clic_gauche", pos |-> c, ok |-> r.ok]
    /\ UNCHANGED <<lignes_directions, colonnes_directions, config, feux, passages_pietons,
                   pietons_actifs, prochain_id_voiture, temps, pc, approved_moves,
                   requete, reponse>>

\* MOUSEBUTTONDOWN, button 3, on cell c
ClicDroit(c) ==
    /\ pc = "evenements"
    /\ DansLimites(grille, c)
    /\ grille' = retirer_obstacle_manuel(grille, c).grille
    /\ journal' = [op |-> "clic_droit", pos |-> c,
                   ok |-> retirer_obstacle_manuel(grille, c).ok,
                   suit_pose |-> /\ journal.op = "clic_gauche"
                                 /\ journal.ok
                                 /\ journal.pos = c]
    /\ UNCHANGED <<lignes_directions, colonnes_directions, config, feux, passages_pietons,
                   pietons_actifs, voitures, prochain_id_voiture, temps, pc,
                   approved_moves, histoire, requete, reponse>>

\* the automatic obstacle step of one frame: nothing (timer not due, 'none'
\* drawn, or no cell to pick), an obstacle added, or one removed
ObstacleAutomatique(tirages) ==
    /\ pc = "evenements"
    /\ \/ /\ journal' = [op |-> "obstacle_auto", action |-> "none"]
          /\ UNCHANGED <<grille, voitures>>
       \/ /\ NbObstacles(grille) < MaxObstacles
          /\ \E p \in {q \in Cellules(grille) \cap tirages :
                        /\ Case(grille, q) = ROUTE
                        /\ q \notin positions_interdites_perm(grille, feux)} :
                LET r == ajouter_obstacle_auto(grille, p, feux)
                IN /\ grille' = r.grille
                   /\ voitures' = IF r.ok THEN forcer_recalcul_si_affecte(p, voitures)
                                  ELSE voitures
                   /\ journal' = [op |-> "obstacle_auto", action |-> "add",
                                  pos |-> p, ok |-> r.ok]
       \/ /\ \E p \in {q \in Cellules(grille) : Case(grille, q) = OBSTACLE_AUTO_SYM} :
                /\ grille' = PoserSymbole(grille, p, ROUTE)
                /\ journal' = [op |-> "obstacle_auto", action |-> "remove", pos |-> p]
          /\ UNCHANGED voitures
    /\ pc' = "feux"
    /\ UNCHANGED <<lignes_directions, colonnes_directions, config, feux, passages_pietons,
                   pietons_actifs, prochain_id_voiture, temps, approved_moves,
                   histoire, requete, reponse>>

MettreAJourFeux ==
    /\ pc = "feux"
    /\ feux' = mettre_a_jour_feux(feux, temps)
    /\ pc' = "pietons"
    /\ journal' = [op |-> "mettre_a_jour_feux"]
    /\ UNCHANGED <<grille, lignes_directions, colonnes_directions, config, passages_pietons,
                   pietons_actifs, voitures, prochain_id_voiture, temps,
                   approved_moves, histoire, requete, reponse>>

MettreAJourPietons ==
    /\ pc = "pietons"
    /\ \E tirage \in 0 .. Len(passages_pietons) :
          pietons_actifs' = mettre_a_jour_pietons(passages_pietons, pietons_actifs,
                                                  voitures, tirage)
    /\ pc' = "voitures"
    /\ journal' = [op |-> "mettre_a_jour_pietons"]
    /\ UNCHANGED <<grille, lignes_directions, colonnes_directions, config, feux,
                   passages_pietons, voitures, prochain_id_voiture, temps,
                   approved_moves, histoire, requete, reponse>>

\* the history after the replans of one update
HistoireApresRecalcul(h, restantes, planifiees) ==
    [id \in {restantes[i].id : i \in 1 .. Len(restantes)} |->
        LET i == CHOOSE j \in 1 .. Len(restantes) : restantes[j].id = id
        IN IF cars_needing_pathfind(restantes[i], temps)
           THEN IF planifiees[i].chemin # <<>>
                THEN HistoireVide
                ELSE [h[id] EXCEPT !.echecs = @ + 1]
           ELSE IF restantes[i].temps_arrivee # None THEN HistoireVide
           ELSE h[id]]

\* variant: the car update is handed the grid as it was built, without the
\* obstacles placed since
MettreAJourVoitures_grille_initiale ==
    /\ pc = "voitures"
    /\ LET g0 == definir_reseau_routier(LargeurDe(grille), HauteurDe(grille))
       IN \E melange \in MelangesPossibles(voitures, g0, lignes_directions,
                                           colonnes_directions, temps) :
             LET r == mettre_a_jour_voitures(voitures, g0, feux, lignes_directions,
                          colonnes_directions, pietons_actifs, temps, melange)
                 restantes == GererArrivees(voitures, temps)
             IN /\ voitures' = r.voitures
                /\ approved_moves' = r.moves
                /\ histoire' = HistoireApresRecalcul(histoire, restantes,
                                   RecalculerChemins(restantes, g0, lignes_directions,
                                                     colonnes_directions, temps))
    /\ pc' = "regeneration"
    /\ journal' = [op |-> "mettre_a_jour_voitures"]
    /\ UNCHANGED <<grille, lignes_directions, colonnes_directions, config, feux,
                   passages_pietons, pietons_actifs, prochain_id_voiture, temps,
                   requete, reponse>>

MettreAJourVoitures ==
    /\ pc = "voitures"
    /\ \E melange \in MelangesPossibles(voitures, grille, lignes_directions,
                                        colonnes_directions, temps) :
          LET r == mettre_a_jour_voitures(voitures, grille, feux, lignes_directions,
                       colonnes_directions, pietons_actifs, temps, melange)
              restantes == GererArrivees(voitures, temps)
          IN /\ voitures' = r.voitures
             /\ approved_moves' = r.moves
             /\ histoire' = HistoireApresRecalcul(histoire, restantes,
                                RecalculerChemins(restantes, grille, lignes_directions,
                                                  colonnes_directions, temps))
    /\ pc' = "regeneration"
    /\ journal' = [op |-> "mettre_a_jour_voitures"]
    /\ UNCHANGED <<grille, lignes_directions, colonnes_directions, config, feux,
                   passages_pietons, pietons_actifs, prochain_id_voiture, temps,
                   requete, reponse>>

\* "while len(voitures) < NOMBRE_VOITURES_CIBLE" at the end of the frame
Regeneration(cible) ==
    /\ pc = "regeneration"
    /\ \E r \in BoucleGeneration(voitures, prochain_id_voiture,
                                 cible, cible, TRUE) :
          /\ voitures' = r.voitures
          /\ prochain_id_voiture' = r.prochain_id
          /\ histoire' = HistoireDe(r.voitures, histoire)
    /\ pc' = "trame"
    /\ journal' = [op |-> "regeneration"]
    /\ UNCHANGED <<grille, lignes_directions, colonnes_directions, config, feux,
                   passages_pietons, pietons_actifs, temps, approved_moves,
                   requete, reponse>>

\* "dt = clock.tick(30)": the next frame starts, dt later
DebutDeTrame(horizon) ==
    /\ pc = "trame"
    /\ \E dt \in 1 .. MaxDt :
          /\ temps + dt <= horizon
          /\ temps' = temps + dt
    /\ pc' = "evenements"
    /\ journal' = [op |-> "debut_de_trame"]
    /\ UNCHANGED <<grille, lignes_directions, colonnes_directions, config, feux,
                   passages_pietons, pietons_actifs, voitures, prochain_id_voiture,
                   approved_moves, histoire, requete, reponse>>

Next ==
    \/ GenererVoituresInitiales(NOMBRE_VOITURES_CIBLE)
    \/ \E c \in TiragesObstacle : ClicGauche(c)
    \/ \E c \in TiragesObstacle : ClicDroit(c)
    \/ ObstacleAutomatique(TiragesObstacle)
    \/ MettreAJourFeux
    \/ MettreAJourPietons
    \/ MettreAJourVoitures
    \/ Regeneration(NOMBRE_VOITURES_CIBLE)
    \/ DebutDeTrame(MaxTemps)

Spec == Init /\ [][Next]_vars

----------------------------------------------------------------------------
(* The example scenario: a 5 x 5 grid whose Road cells are row 2 and column  *)
(* 2, row 2 directed +x and column 2 directed +y, one car from (0, 2) to     *)
(* (2, 4), no light and no crossing.                                         *)

GrilleExemple ==
    [y \in 1 .. 5 |-> [x \in 1 .. 5 |->
        IF x - 1 = 2 \/ y - 1 = 2 THEN ROUTE ELSE NON_ROUTIER]]

DepartExemple == <<0, 2>>
DestinationExemple == <<2, 4>>

\* the cells clicked or picked by the automatic obstacle policy in the example
TiragesExemple == {<<2, 2>>, <<2, 3>>, <<0, 0>>}

\* time.time() at which the runs of the example stop
MaxTempsExemple == 7

InitExemple ==
    /\ grille = GrilleExemple
    /\ lignes_directions = creer_directions_lignes(5)
    /\ colonnes_directions = creer_directions_colonnes(5)
    /\ temps = 0
    /\ feux = <<>>
    /\ passages_pietons = <<>>
    /\ pietons_actifs = <<>>
    /\ voitures = <<nouvelle_voiture(1, DepartExemple, DestinationExemple, grille,
                                     lignes_directions, colonnes_directions, temps)>>
    /\ prochain_id_voiture = 2
    /\ pc = "evenements"
    /\ approved_moves = <<>>
    /\ journal = [op |-> "init"]
    /\ histoire = (1 :> HistoireVide)
    /\ requete = <<>>
    /\ reponse = <<>>
    /\ config = ConfigurationDe(5, 5, 0, 1)

NextExemple ==
    \/ \E c \in TiragesExemple : ClicGauche(c)
    \/ \E c \in TiragesExemple : ClicDroit(c)
    \/ ObstacleAutomatique(TiragesExemple)
    \/ MettreAJourFeux
    \/ MettreAJourPietons
    \/ MettreAJourVoitures
    \/ Regeneration(1)
    \/ DebutDeTrame(MaxTempsExemple)

SpecExemple == InitExemple /\ [][NextExemple]_vars

----------------------------------------------------------------------------
(* Planner harness: trouver_chemin applied to bounded grids and queries *)

\* side of the square grids the planner harness draws
TaillePlan == 3

\* the symbol a blocked cell of a harness grid carries: the three symbols of
\* SYMBOLES_NON_PRATICABLES, spread over the grid
SymboleBloquant(p) ==
    IF (p[1] + p[2]) % 3 = 0 THEN NON_ROUTIER
    ELSE IF (p[1] + p[2]) % 3 = 1 THEN OBSTACLE_MANUEL
    ELSE OBSTACLE_AUTO_SYM

\* the grid whose blocked cells are exactly B
GrilleDe(n, B) ==
    [y \in 1 .. n |-> [x \in 1 .. n |->
        IF <<x - 1, y - 1>> \in B THEN SymboleBloquant(<<x - 1, y - 1>>) ELSE ROUTE]]

InitPlan ==
    /\ \E B \in SUBSET ((0 .. TaillePlan - 1) \X (0 .. TaillePlan - 1)) :
          grille = GrilleDe(TaillePlan, B)
    /\ lignes_directions \in [0 .. TaillePlan - 1 -> {"droite", "gauche"}]
    /\ colonnes_directions \in [0 .. TaillePlan - 1 -> {"bas", "haut"}]
    /\ feux = <<>>
    /\ passages_pietons = <<>>
    /\ pietons_actifs = <<>>
    /\ voitures = <<>>
    /\ prochain_id_voiture = 1
    /\ temps = 0
    /\ pc = "planificateur"
    /\ approved_moves = <<>>
    /\ journal = [op |-> "init"]
    /\ histoire = <<>>
    /\ requete = <<>>
    /\ reponse = <<>>
    /\ config = ConfigurationDe(TaillePlan, TaillePlan, 0, 0)

\* one call trouver_chemin(grille, depart, arrivee, ...) on Road cells
Planifier ==
    /\ pc = "planificateur"
    /\ requete = <<>>
    /\ \E depart \in Cellules(grille), arrivee \in Cellules(grille) :
          /\ Case(grille, depart) = ROUTE
          /\ Case(grille, arrivee) = ROUTE
          /\ requete' = <<depart, arrivee>>
          /\ reponse' = trouver_chemin(grille, depart, arrivee,
                                       lignes_directions, colonnes_directions)
    /\ journal' = [op |-> "trouver_chemin"]
    /\ UNCHANGED <<grille, lignes_directions, colonnes_directions, config, feux,
                   passages_pietons, pietons_actifs, voitures,
                   prochain_id_voiture, temps, pc, approved_moves, histoire>>

\* cells outside the n x n grid, one beyond each of its four sides
HorsLimites(n) == {<<-1, 0>>, <<n, n - 1>>, <<1, -1>>, <<0, n>>}

\* one call trouver_chemin(grille, depart, arrivee, ...) where the start or
\* the goal is outside the grid or not a Road cell; the other end is the same
\* cell or the centre of the grid
PlanifierInvalide ==
    /\ pc = "planificateur"
    /\ requete = <<>>
    /\ \E hors \in {c \in Cellules(grille) : Case(grille, c) # ROUTE}
                      \cup HorsLimites(TaillePlan) :
          \E autre \in {hors, <<1, 1>>} :
             \E r \in {<<hors, autre>>, <<autre, hors>>} :
                /\ requete' = r
                /\ reponse' = trouver_chemin(grille, r[1], r[2],
                                             lignes_directions, colonnes_directions)
    /\ journal' = [op |-> "trouver_chemin"]
    /\ UNCHANGED <<grille, lignes_directions, colonnes_directions, config, feux,
                   passages_pietons, pietons_actifs, voitures,
                   prochain_id_voiture, temps, pc, approved_moves, histoire>>

NextPlan == Planifier \/ PlanifierInvalide

SpecPlan == InitPlan /\ [][NextPlan]_vars

----------------------------------------------------------------------------
(* Configuration harness: the module initialisation, statement by          *)
(* statement, for every small static configuration                         *)

\* largest grid width and height the configuration harness draws
MaxTailleConfig == 5

\* what initialiser_feux_repartis_sur_routes can return: with no cell, and so
\* no candidate, it prints its message and returns []
initialiser_feux_repartis_sur_routes(taille_x, taille_y, g, t) ==
    IF taille_x <= 0 \/ taille_y <= 0 THEN {<<>>}
    ELSE UNION {FeuxDe(S, t) : S \in PlacementsFeux(g)}

InitConfig ==
    /\ \E taille_x \in 0 .. MaxTailleConfig, taille_y \in 0 .. MaxTailleConfig,
          n_passages \in {0, NB_PASSAGES_PIETONS}, n_voitures \in {0, NOMBRE_VOITURES_CIBLE} :
          /\ config = ConfigurationDe(taille_x, taille_y, n_passages, n_voitures)
          /\ grille = definir_reseau_routier(taille_x, taille_y)
          /\ lignes_directions = creer_directions_lignes(taille_y)
          /\ colonnes_directions = creer_directions_colonnes(taille_x)
    /\ temps = 0
    /\ feux = <<>>
    /\ passages_pietons = <<>>
    /\ pietons_actifs = <<>>
    /\ voitures = <<>>
    /\ prochain_id_voiture = 1
    /\ pc = "init_feux"
    /\ approved_moves = <<>>
    /\ journal = [op |-> "init"]
    /\ histoire = <<>>
    /\ requete = <<>>
    /\ reponse = <<>>

\* feux = initialiser_feux_repartis_sur_routes(...)
InitialiserFeux ==
    /\ pc = "init_feux"
    /\ feux' \in initialiser_feux_repartis_sur_routes(config.taille_x, config.taille_y,
                                                      grille, temps)
    /\ pc' = "init_passages"
    /\ journal' = [op |-> "initialiser_feux"]
    /\ UNCHANGED <<grille, lignes_directions, colonnes_directions, config,
                   passages_pietons, pietons_actifs, voitures, prochain_id_voiture,
                   temps, approved_moves, histoire, requete, reponse>>

\* passages_pietons = initialiser_passages_pietons_sur_routes(...): with
\* crossings asked for, random.randrange(1, taille - 1) raises ValueError on
\* an empty range, which ends the program
InitialiserPassages ==
    /\ pc = "init_passages"
    /\ IF config.n_passages <= 0
       THEN /\ passages_pietons' = <<>>
            /\ pc' = "init_voitures"
       ELSE IF config.taille_x - 1 <= 1 \/ config.taille_y - 1 <= 1
       THEN /\ passages_pietons' = <<>>
            /\ pc' = "erreur"
       ELSE /\ passages_pietons' \in PassagesPossibles(grille, feux, config.n_passages, <<>>)
            /\ pc' = "init_voitures"
    /\ journal' = [op |-> "initialiser_passages"]
    /\ UNCHANGED <<grille, lignes_directions, colonnes_directions, config, feux,
                   pietons_actifs, voitures, prochain_id_voiture, temps,
                   approved_moves, histoire, requete, reponse>>

\* voitures = generer_voitures_initiales(...), then "while running": with
\* cars asked for, random.randrange(taille) raises ValueError on an empty
\* range, which ends the program
GenererVoituresConfig ==
    /\ pc = "init_voitures"
    /\ IF config.n_voitures <= 0
       THEN /\ UNCHANGED <<voitures, prochain_id_voiture, histoire>>
            /\ pc' = "evenements"
       ELSE IF config.taille_x <= 0 \/ config.taille_y <= 0
       THEN /\ UNCHANGED <<voitures, prochain_id_voiture, histoire>>
            /\ pc' = "erreur"
       ELSE /\ \E r \in BoucleGeneration(<<>>, prochain_id_voiture,
                                          2 * config.n_voitures, config.n_voitures, FALSE) :
                  /\ voitures' = r.voitures
                  /\ prochain_id_voiture' = r.prochain_id
                  /\ histoire' = HistoireDe(r.voitures, histoire)
            /\ pc' = "evenements"
    /\ journal' = [op |-> "generer_voitures_initiales"]
    /\ UNCHANGED <<grille, lignes_directions, colonnes_directions, config, feux,
                   passages_pietons, pietons_actifs, temps, approved_moves,
                   requete, reponse>>

NextConfig ==
    \/ InitialiserFeux
    \/ InitialiserPassages
    \/ GenererVoituresConfig

SpecConfig == InitConfig /\ [][NextConfig]_vars

----------------------------------------------------------------------------
(* Light harness: one light started anywhere in its cycle, updated at      *)
(* irregular times                                                         *)

\* time.time() at which the runs of the light harness stop
MaxTempsFeux == 70
\* longest time between two updates of the light harness
MaxDtFeux == 3

InitFeux ==
    /\ grille = definir_reseau_routier(TAILLE_X_GRILLE, TAILLE_Y_GRILLE)
    /\ lignes_directions = creer_directions_lignes(TAILLE_Y_GRILLE)
    /\ colonnes_directions = creer_directions_colonnes(TAILLE_X_GRILLE)
    /\ temps = 0
    /\ \E d \in 0 .. duree_vert + duree_orange + duree_rouge - 1 :
          feux = <<FeuInitial(<<0, 0>>, d, temps)>>
    /\ passages_pietons = <<>>
    /\ pietons_actifs = <<>>
    /\ voitures = <<>>
    /\ prochain_id_voiture = 1
    /\ pc = "feux_seuls"
    /\ approved_moves = <<>>
    /\ journal = [op |-> "init"]
    /\ histoire = <<>>
    /\ requete = <<>>
    /\ reponse = <<>>
    /\ config = ConfigurationDe(TAILLE_X_GRILLE, TAILLE_Y_GRILLE, 0, 0)

\* one frame of which only the call mettre_a_jour_feux(feux) is kept
TicFeux ==
    /\ pc = "feux_seuls"
    /\ \E dt \in 1 .. MaxDtFeux :
          /\ temps + dt <= MaxTempsFeux
          /\ temps' = temps + dt
    /\ feux' = mettre_a_jour_feux(feux, temps')
    /\ journal' = [op |-> "mettre_a_jour_feux"]
    /\ UNCHANGED <<grille, lignes_directions, colonnes_directions, config,
                   passages_pietons, pietons_actifs, voitures, prochain_id_voiture,
                   pc, approved_moves, histoire, requete, reponse>>

\* time between two updates when the loop of the frames has been held up
DtPause == 40

\* one late frame: mettre_a_jour_feux(feux) is called DtPause after the
\* previous call; the journal keeps the lights as they were before the call
PauseFeux ==
    /\ pc = "feux_seuls"
    /\ temps + DtPause <= MaxTempsFeux
    /\ temps' = temps + DtPause
    /\ feux' = mettre_a_jour_feux(feux, temps')
    /\ journal' = [op |-> "pause", avant |-> feux]
    /\ UNCHANGED <<grille, lignes_directions, colonnes_directions, config,
                   passages_pietons, pietons_actifs, voitures, prochain_id_voiture,
                   pc, approved_moves, histoire, requete, reponse>>

NextFeux == TicFeux \/ PauseFeux

SpecFeux == InitFeux /\ [][NextFeux]_vars

----------------------------------------------------------------------------
(* Reference definitions for the properties: a breadth-first search that   *)
(* shares nothing with trouver_chemin.                                     *)

\* one legal unit move from a to b: b is orthogonally adjacent, in bounds and
\* Road, and the move follows the direction of a's row or column
MouvementLegal(g, dl, dc, a, b) ==
    /\ DansLimites(g, b)
    /\ Case(g, b) = ROUTE
    /\ \/ /\ b[2] = a[2]
          /\ b[1] - a[1] = (IF dl[a[2]] = "droite" THEN 1 ELSE -1)
       \/ /\ b[1] = a[1]
          /\ b[2] - a[2] = (IF dc[a[1]] = "bas" THEN 1 ELSE -1)

\* the cells one legal move away from a cell of S
Successeurs(g, dl, dc, S) ==
    {b \in Cellules(g) : \E a \in S : MouvementLegal(g, dl, dc, a, b)}

\* the least number of legal moves from a cell of the frontier to b, counted
\* from k; -1 when b cannot be reached
RECURSIVE DistanceDepuis(_, _, _, _, _, _, _)
DistanceDepuis(g, dl, dc, vues, frontiere, b, k) ==
    IF b \in frontiere THEN k
    ELSE LET suite == Successeurs(g, dl, dc, frontiere) \ vues
         IN IF suite = {} THEN -1
            ELSE DistanceDepuis(g, dl, dc, vues \cup suite, suite, b, k + 1)

DistanceMin(g, dl, dc, a, b) == DistanceDepuis(g, dl, dc, {a}, {a}, b, 0)

\* a route of legal moves leads from the Road cell a to the Road cell b
RouteExiste(g, dl, dc, a, b) ==
    /\ DansLimites(g, a) /\ Case(g, a) = ROUTE
    /\ DansLimites(g, b) /\ Case(g, b) = ROUTE
    /\ DistanceMin(g, dl, dc, a, b) >= 0

\* the car of the list vs whose id is id
VoitureDe(vs, id) == vs[CHOOSE i \in 1 .. Len(vs) : vs[i].id = id]
Ids(vs) == {vs[i].id : i \in 1 .. Len(vs)}
EnRoute(vs) == {i \in 1 .. Len(vs) : vs[i].temps_arrivee = None}

\* a light that is not green, or a pedestrian still crossing, is on pos
PassageInterdit(pos, fx, pietons) ==
    \/ \E i \in 1 .. Len(fx) : fx[i].position = pos /\ fx[i].etat # "vert"
    \/ \E i \in 1 .. Len(pietons) :
          pietons[i].passage_pos = pos /\ pietons[i].progres < PasDeTraversee

----------------------------------------------------------------------------
(* Properties *)

\* C1 - Mutual exclusion: in every reachable state no two cars whose
\* temps_arrivee is unset are on the same cell.
C1_ExclusionMutuelle ==
    \A i, j \in EnRoute(voitures) : i # j => voitures[i].position # voitures[j].position

\* An update has just refused a car that was due to move the cell another
\* car was granted in the same update.
C1_Temoin ==
    /\ pc = "regeneration"
    /\ \E i, j \in EnRoute(voitures) :
          /\ i # j
          /\ voitures[i].chemin # <<>>
          /\ voitures[i].chemin[1] = voitures[j].position
          /\ temps - voitures[i].dernier_deplacement >= DELAI_MIN_MOUVEMENT
          /\ voitures[j].id \in DOMAIN approved_moves

\* C2 - Gating: a car's position never changes to a cell that holds a light
\* not green or a pedestrian with progress below 1, the lights and the
\* pedestrians being those the same frame updated before the cars.
C2_Gating ==
    [][\A id \in Ids(voitures) \cap Ids(voitures') :
          VoitureDe(voitures', id).position # VoitureDe(voitures, id).position
          => /\ pc = "voitures"
             /\ feux' = feux /\ pietons_actifs' = pietons_actifs
             /\ ~PassageInterdit(VoitureDe(voitures', id).position, feux,
                                 pietons_actifs)]_vars

\* An update has just kept in place a car that was due to move, whose next
\* cell no car held and whose light is not green.
C2_Temoin ==
    /\ pc = "regeneration"
    /\ \E i \in EnRoute(voitures) :
          /\ voitures[i].chemin # <<>>
          /\ temps - voitures[i].dernier_deplacement >= DELAI_MIN_MOUVEMENT
          /\ \A j \in 1 .. Len(voitures) : voitures[j].position # voitures[i].chemin[1]
          /\ \E k \in 1 .. Len(feux) : /\ feux[k].position = voitures[i].chemin[1]
                                       /\ feux[k].etat # "vert"

\* C3 - Planner completeness and soundness: for a start and a goal that are
\* Road cells, trouver_chemin returns a path exactly when a route of legal
\* unit moves leads from the start to the goal.
C3_PlanificateurComplet ==
    requete # <<>> =>
        (reponse # <<>> <=> RouteExiste(grille, lignes_directions, colonnes_directions,
                                        requete[1], requete[2]))

\* The planner answered NoPath for two distinct Road cells.
C3_Temoin ==
    /\ requete # <<>>
    /\ requete[1] # requete[2]
    /\ reponse = <<>>

\* C4 - Planner optimality: a returned path has one cell more than the least
\* number of legal unit moves from the start to the goal.
C4_PlanificateurOptimal ==
    (requete # <<>> /\ reponse # <<>>) =>
        Len(reponse) - 1 = DistanceMin(grille, lignes_directions, colonnes_directions,
                                       requete[1], requete[2])

\* The planner returned a path longer than the Manhattan distance allows: a
\* detour forced by the one-way rows and columns or by blocked cells.
C4_Temoin ==
    /\ requete # <<>>
    /\ reponse # <<>>
    /\ Len(reponse) - 1 > heuristique(requete[1], requete[2])

\* C5 - Escalation: a car whose replans failed MAX_RECALCUL_ECHECS times in a
\* row has a new destination searched at its next replan, and takes it when
\* the search finds one; so a car that an update leaves with more failures
\* in a row than that is one for which the search accepts no cell.
C5_Escalade ==
    \A i \in EnRoute(voitures) :
        (pc = "regeneration" /\ histoire[voitures[i].id].echecs > MAX_RECALCUL_ECHECS)
        => trouver_nouvelle_destination_valide(voitures[i], grille, feux,
               lignes_directions, colonnes_directions) = {}

\* C6 - Blockage clears on move: a car whose move the last update approved
\* has its bloquee_depuis unset, from the end of that update on.
C6_BlocageEfface ==
    \A i \in 1 .. Len(voitures) :
        voitures[i].id \in DOMAIN approved_moves => voitures[i].bloquee_depuis = None

\* An update has just moved a car.
C6_Temoin ==
    /\ pc = "regeneration"
    /\ \E i \in 1 .. Len(voitures) :
          /\ voitures[i].id \in DOMAIN approved_moves
          /\ voitures[i].position = approved_moves[voitures[i].id]
          /\ voitures[i].dernier_deplacement = temps

\* C7 - Obstacle round trip: on every cell where a manual obstacle can be
\* placed, removing it right after succeeds and gives back the grid as it was.
C7_AllerRetour ==
    \A c \in Cellules(grille) :
        ajouter_obstacle_manuel(grille, c, feux).ok =>
            LET pose == ajouter_obstacle_manuel(grille, c, feux).grille
            IN /\ Case(pose, c) = OBSTACLE_MANUEL
               /\ retirer_obstacle_manuel(pose, c).ok
               /\ retirer_obstacle_manuel(pose, c).grille = grille
               /\ Case(grille, c) = ROUTE

\* A right click has just removed the manual obstacle the click before it
\* had placed on the same cell.
C7_Temoin ==
    /\ journal.op = "clic_droit"
    /\ journal.ok
    /\ journal.suit_pose
    /\ Case(grille, journal.pos) = ROUTE

\* C8 - Replan after removal: when the cars are about to be updated, a car
\* whose path a manual obstacle at C emptied, C being Road again and a route
\* leading from its position to its destination, comes out of the replan
\* step with a path that ends at its unchanged destination and with
\* bloquee_depuis unset.
C8_RecalculApresRetrait ==
    pc = "voitures" =>
        \A i \in EnRoute(voitures) :
            LET v == voitures[i]
                planifiees == RecalculerChemins(GererArrivees(voitures, temps), grille,
                                  lignes_directions, colonnes_directions, temps)
            IN (/\ histoire[v.id].invalide # <<>>
                /\ Case(grille, histoire[v.id].invalide) = ROUTE
                /\ RouteExiste(grille, lignes_directions, colonnes_directions,
                               v.position, v.destination))
               => /\ v.id \in Ids(planifiees)
                  /\ VoitureDe(planifiees, v.id).chemin # <<>>
                  /\ VoitureDe(planifiees, v.id).chemin[
                         Len(VoitureDe(planifiees, v.id).chemin)] = v.destination
                  /\ VoitureDe(planifiees, v.id).destination = v.destination
                  /\ VoitureDe(planifiees, v.id).position = v.position
                  /\ VoitureDe(planifiees, v.id).bloquee_depuis = None

\* The cars are about to be updated; one of them, blocked since a manual
\* obstacle emptied its path, has a route again now the obstacle is removed.
C8_Temoin ==
    /\ pc = "voitures"
    /\ \E i \in EnRoute(voitures) :
          /\ histoire[voitures[i].id].invalide # <<>>
          /\ Case(grille, histoire[voitures[i].id].invalide) = ROUTE
          /\ voitures[i].bloquee_depuis # None
          /\ voitures[i].chemin = <<>>
          /\ RouteExiste(grille, lignes_directions, colonnes_directions,
                         voitures[i].position, voitures[i].destination)

\* C9 - Example scenario: the planner's path from (0, 2) to (2, 4) on the
\* example grid is (0,2) (1,2) (2,2) (2,3) (2,4); a manual obstacle placed at
\* (2, 2) while the car is at (0, 2) or (1, 2) empties the car's path; and the
\* update that follows finds no path and sets bloquee_depuis to its own time.
C9_Exemple ==
    /\ trouver_chemin(GrilleExemple, DepartExemple, DestinationExemple,
                      lignes_directions, colonnes_directions)
         = << <<0, 2>>, <<1, 2>>, <<2, 2>>, <<2, 3>>, <<2, 4>> >>
    /\ \A i \in EnRoute(voitures) :
          LET v == voitures[i]
          IN /\ (/\ journal.op = "clic_gauche" /\ journal.ok
                 /\ journal.pos = <<2, 2>>
                 /\ v.position \in {<<0, 2>>, <<1, 2>>}
                 /\ v.destination = DestinationExemple)
                => v.chemin = <<>>
             /\ (/\ pc = "regeneration"
                 /\ histoire[v.id].invalide = <<2, 2>>
                 /\ histoire[v.id].echecs = 1
                 /\ Case(grille, <<2, 2>>) = OBSTACLE_MANUEL)
                => /\ v.chemin = <<>>
                   /\ v.bloquee_depuis = temps
                   /\ v.position \in {<<0, 2>>, <<1, 2>>}

\* The update that followed the placement at (2, 2) has just failed to plan
\* for the car, which had already moved to (1, 2).
C9_Temoin ==
    /\ pc = "regeneration"
    /\ Case(grille, <<2, 2>>) = OBSTACLE_MANUEL
    /\ \E i \in EnRoute(voitures) :
          /\ voitures[i].position = <<1, 2>>
          /\ voitures[i].destination = DestinationExemple
          /\ histoire[voitures[i].id].invalide = <<2, 2>>
          /\ histoire[voitures[i].id].echecs = 1
          /\ voitures[i].bloquee_depuis = temps

\* C10 - Obstacle placement: a manual or automatic placement succeeds
\* exactly on a Road cell without a light, then writing its symbol there; a
\* failed one leaves the grid as it was, and a failed click changes neither
\* the grid, nor the lights, nor the cars.
C10_PoseObstacle ==
    [][/\ \A c \in Cellules(grille) :
             LET eligible == Case(grille, c) = ROUTE /\ c \notin PositionsFeux(feux)
                 m == ajouter_obstacle_manuel(grille, c, feux)
                 a == ajouter_obstacle_auto(grille, c, feux)
             IN /\ m.ok <=> eligible
                /\ a.ok <=> eligible
                /\ m.grille = IF eligible THEN PoserSymbole(grille, c, OBSTACLE_MANUEL)
                              ELSE grille
                /\ a.grille = IF eligible THEN PoserSymbole(grille, c, OBSTACLE_AUTO_SYM)
                              ELSE grille
       /\ (pc = "evenements" /\ journal'.op = "clic_gauche")
          => /\ journal'.ok <=> (/\ Case(grille, journal'.pos) = ROUTE
                                 /\ journal'.pos \notin PositionsFeux(feux))
             /\ journal'.ok => Case(grille', journal'.pos) = OBSTACLE_MANUEL
             /\ ~journal'.ok => (grille' = grille /\ feux' = feux /\ voitures' = voitures)
       /\ (pc = "evenements" /\ journal'.op = "obstacle_auto" /\ grille' # grille
           /\ journal'.action = "add")
          => /\ Case(grille, journal'.pos) = ROUTE
             /\ journal'.pos \notin PositionsFeux(feux)
             /\ grille' = PoserSymbole(grille, journal'.pos, OBSTACLE_AUTO_SYM)
             /\ feux' = feux]_vars

\* A left click has just failed on a cell that holds a light.
C10_Temoin ==
    /\ journal.op = "clic_gauche"
    /\ ~journal.ok
    /\ journal.pos \in PositionsFeux(feux)
    /\ Case(grille, journal.pos) = ROUTE

\* C11 - Manual obstacle removal: the right click changes the grid only on a
\* cell that holds a manual obstacle, which becomes Road, every other cell
\* staying as it was; on a Road cell, a non-road cell or an automatic
\* obstacle it changes nothing.
C11_RetraitManuel ==
    [][/\ \A c \in Cellules(grille) :
             retirer_obstacle_manuel(grille, c).grille =
                 IF Case(grille, c) = OBSTACLE_MANUEL
                 THEN PoserSymbole(grille, c, ROUTE) ELSE grille
       /\ (pc = "evenements" /\ journal'.op = "clic_droit")
          => /\ journal'.ok <=> Case(grille, journal'.pos) = OBSTACLE_MANUEL
             /\ journal'.ok
                => /\ Case(grille', journal'.pos) = ROUTE
                   /\ \A c \in Cellules(grille) \ {journal'.pos} :
                         Case(grille', c) = Case(grille, c)
             /\ ~journal'.ok => grille' = grille
             /\ voitures' = voitures /\ feux' = feux]_vars

\* A right click has just failed on a cell that holds an automatic obstacle.
C11_Temoin ==
    /\ journal.op = "clic_droit"
    /\ ~journal.ok
    /\ Case(grille, journal.pos) = OBSTACLE_AUTO_SYM

\* C12 - Car position: in every reachable state the position of every car
\* that has not arrived is a Road cell.
C12_PositionRoute ==
    \A i \in EnRoute(voitures) : Case(grille, voitures[i].position) = ROUTE

\* C13 - Car destination: in every reachable state the destination of every
\* car that has not arrived is a Road cell.
C13_DestinationRoute ==
    \A i \in EnRoute(voitures) : Case(grille, voitures[i].destination) = ROUTE

\* C14 - Cell states: the non-road cells are those of the initial grid; every
\* obstacle is on a cell that was Road in the initial grid; and no light, no
\* crossing and no car is on a non-road cell.
C14_EtatsDesCases ==
    LET initiale == definir_reseau_routier(config.taille_x, config.taille_y)
    IN /\ \A c \in Cellules(grille) :
             /\ Case(grille, c) = NON_ROUTIER <=> Case(initiale, c) = NON_ROUTIER
             /\ Case(grille, c) \in {OBSTACLE_MANUEL, OBSTACLE_AUTO_SYM}
                => Case(initiale, c) = ROUTE
       /\ \A i \in 1 .. Len(feux) : Case(grille, feux[i].position) # NON_ROUTIER
       /\ \A i \in 1 .. Len(passages_pietons) :
             Case(grille, passages_pietons[i].position) # NON_ROUTIER
       /\ \A i \in 1 .. Len(voitures) : Case(grille, voitures[i].position) # NON_ROUTIER

\* A left click has just failed on a non-road cell while an obstacle, lights,
\* a crossing and cars are on the grid.
C14_Temoin ==
    /\ journal.op = "clic_gauche"
    /\ ~journal.ok
    /\ Case(grille, journal.pos) = NON_ROUTIER
    /\ \E c \in Cellules(grille) : Case(grille, c) \in {OBSTACLE_MANUEL, OBSTACLE_AUTO_SYM}
    /\ feux # <<>> /\ passages_pietons # <<>> /\ voitures # <<>>

\* the phase that follows a phase in the cycle
PhaseSuivante(etat) ==
    IF etat = "vert" THEN "orange" ELSE IF etat = "orange" THEN "rouge" ELSE "vert"

\* C15 - Light phase order: in every update a light keeps its phase, and then
\* its dernier_changement, or takes the next phase of the cycle green, orange,
\* red, green, and then its dernier_changement is the time of the update.
C15_OrdreDesPhases ==
    [][/\ Len(feux') = Len(feux)
       /\ \A i \in 1 .. Len(feux) :
             /\ feux'[i].position = feux[i].position
             /\ feux'[i].etat \in {"vert", "orange", "rouge"}
             /\ \/ /\ feux'[i].etat = feux[i].etat
                   /\ feux'[i].dernier_changement = feux[i].dernier_changement
                \/ /\ feux'[i].etat # feux[i].etat
                   /\ feux'[i].etat = PhaseSuivante(feux[i].etat)
                   /\ feux'[i].dernier_changement = temps']_vars

\* An update has just turned a red light green.
C15_Temoin ==
    /\ pc = "feux_seuls"
    /\ temps > 0
    /\ feux[1].etat = "vert"
    /\ feux[1].dernier_changement = temps
    /\ feux[1].duree_actuelle = feux[1].duree_vert

\* the grid has no Road cell
AucuneRoute(g) == \A y \in 1 .. Len(g) : \A x \in 1 .. Len(g[y]) : g[y][x] # ROUTE

\* C16 - Fail-fast configuration: with a grid width or height that is not
\* positive, or a grid without Road cell, the initialisation ends in an error
\* and the loop of the frames is not entered.
C16_EchecRapide ==
    (config.taille_x <= 0 \/ config.taille_y <= 0 \/ AucuneRoute(grille))
    => pc # "evenements"

\* the step has placed an obstacle, by a left click or by the automatic policy
PoseReussie ==
    /\ pc = "evenements"
    /\ \/ journal'.op = "clic_gauche" /\ journal'.ok
       \/ journal'.op = "obstacle_auto" /\ journal'.action = "add" /\ journal'.ok
    /\ Case(grille, journal'.pos) = ROUTE
    /\ Case(grille', journal'.pos) \in {OBSTACLE_MANUEL, OBSTACLE_AUTO_SYM}

\* the car has not arrived and its path holds c or its destination is c
Concernee(v, c) ==
    /\ v.temps_arrivee = None
    /\ (DansChemin(c, v.chemin) \/ v.destination = c)

\* C17 - Forced replan on placement: when an obstacle is placed on C, every
\* car that has not arrived and whose path holds C or whose destination is C
\* has an empty path right after, with bloquee_depuis as it was; every other
\* car keeps its path; and all keep position and destination.
C17_RecalculForce ==
    [][PoseReussie =>
          /\ Len(voitures') = Len(voitures)
          /\ \A i \in 1 .. Len(voitures) :
                /\ voitures'[i].id = voitures[i].id
                /\ voitures'[i].position = voitures[i].position
                /\ voitures'[i].destination = voitures[i].destination
                /\ voitures'[i].bloquee_depuis = voitures[i].bloquee_depuis
                /\ voitures'[i].temps_arrivee = voitures[i].temps_arrivee
                /\ voitures'[i].chemin =
                      IF Concernee(voitures[i], journal'.pos) THEN <<>>
                      ELSE voitures[i].chemin]_vars

\* An obstacle has just been placed on a cell of one car's path, emptied by
\* it, while another car keeps its path.
C17_Temoin ==
    /\ journal.op \in {"clic_gauche", "obstacle_auto"}
    /\ "ok" \in DOMAIN journal /\ journal.ok
    /\ Case(grille, journal.pos) \in {OBSTACLE_MANUEL, OBSTACLE_AUTO_SYM}
    /\ \E i, j \in EnRoute(voitures) :
          /\ voitures[i].chemin = <<>>
          /\ voitures[i].position # voitures[i].destination
          /\ \A k \in DOMAIN histoire : k = voitures[i].id => histoire[k].echecs = 0
          /\ voitures[j].chemin # <<>>

\* the step has removed an obstacle, by a right click or by the automatic policy
RetraitReussi ==
    /\ pc = "evenements"
    /\ \/ journal'.op = "clic_droit" /\ journal'.ok
       \/ journal'.op = "obstacle_auto" /\ journal'.action = "remove"
    /\ Case(grille, journal'.pos) \in {OBSTACLE_MANUEL, OBSTACLE_AUTO_SYM}
    /\ Case(grille', journal'.pos) = ROUTE

GenerationEchoue ==
    [ok |-> FALSE, voiture |-> <<>>]
        \in generer_une_nouvelle_voiture(grille, feux, lignes_directions,
                colonnes_directions, voitures, prochain_id_voiture, temps)

\* C19 - Target population: the generation pass that ends a frame keeps the
\* cars it found, leaves at most the target number of cars, and leaves fewer
\* only where an attempt to generate one more car yields none; it uses one
\* identifier per car it adds, so a failed attempt changes nothing; and every
\* frame reaches the generation pass again.
C19_PopulationCible ==
    [][/\ pc = "regeneration" /\ pc' = "trame"
          => /\ Len(voitures') <= NOMBRE_VOITURES_CIBLE
             /\ Len(voitures') >= Len(voitures)
             /\ SubSeq(voitures', 1, Len(voitures)) = voitures
             /\ prochain_id_voiture' - prochain_id_voiture
                   = Len(voitures') - Len(voitures)
             /\ Len(voitures') < NOMBRE_VOITURES_CIBLE => GenerationEchoue'
       /\ pc = "voitures" => pc' = "regeneration"
       /\ pc = "trame" => Len(voitures) <= NOMBRE_VOITURES_CIBLE]_vars

\* A frame after the first ends below the target population: a car has
\* left, and no car could be generated in its place.
C19_Temoin ==
    /\ pc = "trame"
    /\ journal.op = "regeneration"
    /\ temps > 0
    /\ Len(voitures) < NOMBRE_VOITURES_CIBLE
    /\ prochain_id_voiture > Len(voitures) + 1

\* C20 - Blocked-agent detection: a car that has not arrived and has had no
\* approved move for longer than SEUIL_BLOCAGE has its bloquee_depuis set
\* once the car update of the frame is done.
C20_DetectionBlocage ==
    pc = "regeneration"
    => \A i \in EnRoute(voitures) :
          temps - voitures[i].dernier_deplacement > SEUIL_BLOCAGE
          => voitures[i].bloquee_depuis # None

\* b is orthogonally adjacent to a, and the step from a to b follows the
\* direction of a's row (horizontal step) or of a's column (vertical step)
PasPermis(dl, dc, a, b) ==
    \/ /\ b[2] = a[2]
       /\ b[1] - a[1] = (IF dl[a[2]] = "droite" THEN 1 ELSE -1)
    \/ /\ b[1] = a[1]
       /\ b[2] - a[2] = (IF dc[a[1]] = "bas" THEN 1 ELSE -1)

\* the path of car v leads from its position to its destination by
\* permitted steps
CheminCoherent(v, dl, dc) ==
    LET route == <<v.position>> \o v.chemin
    IN /\ \A k \in 1 .. Len(route) - 1 :
             /\ heuristique(route[k], route[k + 1]) = 1
             /\ PasPermis(dl, dc, route[k], route[k + 1])
       /\ route[Len(route)] = v.destination

\* C21 - Path invariant: in every state, every car that has not arrived and
\* has a non-empty path has a path whose first cell is orthogonally adjacent
\* to its position, whose consecutive cells are orthogonally adjacent, whose
\* steps follow the direction of the row or column of the cell left, and
\* whose last cell is its destination.
C21_CheminCoherent ==
    \A i \in EnRoute(voitures) :
        voitures[i].chemin # <<>>
        => CheminCoherent(voitures[i], lignes_directions, colonnes_directions)

\* A frame has ended with a car that has moved and still has cells to go.
C21_Temoin ==
    /\ pc = "trame"
    /\ \E i \in EnRoute(voitures) :
          /\ voitures[i].chemin # <<>>
          /\ voitures[i].dernier_deplacement > 0
          /\ voitures[i].id \in DOMAIN approved_moves

\* the cars at the start of the move resolution of the frame that begins in
\* the current state: arrivals marked and removed, replans done
VoituresAResoudre ==
    RecalculerChemins(GererArrivees(voitures, temps), grille, lignes_directions,
                      colonnes_directions, temps)

\* C22 - No entry into an occupied cell: a cell held by a car that has not
\* arrived when the move resolution of a frame starts is entered by no other
\* car in that frame, even when its occupant moves out in the same frame;
\* so two cars never swap cells and no car follows into a cell just left.
C22_CaseOccupeeInterdite ==
    [][pc = "voitures"
       => \A j \in 1 .. Len(voitures') :
             \A i \in 1 .. Len(VoituresAResoudre) :
                LET avant == VoituresAResoudre[i]
                    apres == voitures'[j]
                IN /\ avant.temps_arrivee = None
                   /\ avant.id # apres.id
                   /\ VoitureDe(VoituresAResoudre, apres.id).position # apres.position
                   => apres.position # avant.position]_vars

\* A car update has refused an eligible car whose next cell is open to
\* traffic and now free: the cell was held when the resolution started and
\* its occupant has moved out in the same frame.
C22_Temoin ==
    /\ pc = "regeneration"
    /\ \E i \in EnRoute(voitures) :
          /\ voitures[i].chemin # <<>>
          /\ temps - voitures[i].dernier_deplacement >= DELAI_MIN_MOUVEMENT
          /\ voitures[i].id \notin DOMAIN approved_moves
          /\ est_deplacement_valide(voitures[i].chemin[1], feux, pietons_actifs, grille)
          /\ \A j \in EnRoute(voitures) : voitures[j].position # voitures[i].chemin[1]
          /\ \E j \in EnRoute(voitures) :
                /\ voitures[j].id \in DOMAIN approved_moves
                /\ PasPermis(lignes_directions, colonnes_directions,
                             voitures[i].chemin[1], voitures[j].position)

\* C23 - Blocked cars have no path: in every state a car whose
\* bloquee_depuis is set has an empty path, and when the move resolution of
\* a frame starts no eligible car has bloquee_depuis set.
C23_BloqueeSansChemin ==
    /\ \A i \in 1 .. Len(voitures) :
          voitures[i].bloquee_depuis # None => voitures[i].chemin = <<>>
    /\ pc = "voitures"
       => /\ IndexPrioritaires(VoituresAResoudre, temps) = {}
          /\ \A i \in 1 .. Len(VoituresAResoudre) :
                VoituresAResoudre[i].bloquee_depuis # None
                => VoituresAResoudre[i].chemin = <<>>

\* The move resolution is about to start with a car that is blocked since
\* an earlier frame and still finds no route.
C23_Temoin ==
    /\ pc = "voitures"
    /\ \E i \in 1 .. Len(VoituresAResoudre) :
          /\ VoituresAResoudre[i].temps_arrivee = None
          /\ VoituresAResoudre[i].bloquee_depuis # None
          /\ VoituresAResoudre[i].bloquee_depuis < temps

\* C25 - Consecutive-failure count: in every car update, each car that is
\* replanned has its recalcul_echecs incremented when the replan finds no
\* path of more than one cell and reset to zero when it finds one, so that
\* the count is the number of failed replans in a row.
C25_CompteurEchecs ==
    [][pc = "voitures"
       => LET restantes == GererArrivees(voitures, temps)
          IN \A i \in 1 .. Len(restantes) :
                LET v == restantes[i]
                    apres == VoitureDe(voitures', v.id)
                    path_trouve == trouver_chemin(grille, v.position, v.destination,
                                       lignes_directions, colonnes_directions)
                IN cars_needing_pathfind(v, temps)
                   => apres.recalcul_echecs =
                         (IF Len(path_trouve) > 1 THEN 0
                          ELSE v.recalcul_echecs + 1)]_vars

\* C26 - Replan failure: in every car update, a replanned car for which no
\* path of more than one cell is found ends with an empty path, with
\* bloquee_depuis set to the current time if it was unset and unchanged if
\* it was set, and with the same position and destination; the update goes
\* on to the end of the frame.
C26_EchecDeRecalcul ==
    [][pc = "voitures"
       => /\ pc' = "regeneration"
          /\ LET restantes == GererArrivees(voitures, temps)
             IN \A i \in 1 .. Len(restantes) :
                   LET v == restantes[i]
                       path_trouve == trouver_chemin(grille, v.position, v.destination,
                                          lignes_directions, colonnes_directions)
                   IN cars_needing_pathfind(v, temps) /\ Len(path_trouve) <= 1
                      => /\ v.id \in Ids(voitures')
                         /\ VoitureDe(voitures', v.id).chemin = <<>>
                         /\ VoitureDe(voitures', v.id).bloquee_depuis =
                               (IF v.bloquee_depuis = None THEN temps
                                ELSE v.bloquee_depuis)
                         /\ VoitureDe(voitures', v.id).position = v.position
                         /\ VoitureDe(voitures', v.id).destination = v.destination]_vars

\* A car update has just failed to replan a car for at least the second
\* time in a row, and the car is still blocked since the first failure.
C26_Temoin ==
    /\ pc = "regeneration"
    /\ \E i \in EnRoute(voitures) :
          /\ histoire[voitures[i].id].echecs >= 2
          /\ voitures[i].chemin = <<>>
          /\ voitures[i].bloquee_depuis # None
          /\ voitures[i].bloquee_depuis < temps

\* C27 - Arrived cars hold no cell: in every car update, an eligible car
\* whose next cell holds only arrived cars when the move resolution starts,
\* is open to traffic (lights, pedestrians) and is taken by no other car in
\* that frame, moves onto it, while the arrived car is still in the list.
C27_ArriveesNonReservees ==
    [][pc = "voitures"
       => \A i \in 1 .. Len(VoituresAResoudre) :
             LET v == VoituresAResoudre[i]
                 c == v.chemin[1]
             IN (/\ voitures_eligibles_pour_mouvement(v, temps)
                 /\ \E j \in 1 .. Len(VoituresAResoudre) :
                       /\ VoituresAResoudre[j].position = c
                       /\ VoituresAResoudre[j].temps_arrivee # None
                 /\ \A j \in 1 .. Len(VoituresAResoudre) :
                       VoituresAResoudre[j].position = c
                       => VoituresAResoudre[j].temps_arrivee # None
                 /\ est_deplacement_valide(c, feux, pietons_actifs, grille)
                 /\ \A j \in 1 .. Len(voitures') :
                       (voitures'[j].id # v.id /\ voitures'[j].position = c)
                       => voitures'[j].temps_arrivee # None)
                => /\ VoitureDe(voitures', v.id).position = c
                   /\ \E j \in 1 .. Len(voitures') :
                         /\ voitures'[j].position = c
                         /\ voitures'[j].temps_arrivee # None]_vars

\* A car has just moved onto the cell of a car that arrived and is still in
\* the list.
C27_Temoin ==
    /\ pc = "regeneration"
    /\ \E i \in EnRoute(voitures) :
          /\ voitures[i].id \in DOMAIN approved_moves
          /\ voitures[i].dernier_deplacement = temps
          /\ \E j \in 1 .. Len(voitures) :
                /\ voitures[j].temps_arrivee # None
                /\ voitures[j].position = voitures[i].position

\* C28 - Arrival lifecycle: a car update marks arrived every car that starts
\* it on its destination (arrival time set, path emptied, bloquee_depuis
\* unset, failure count zero) and no other car; once arrived a car never
\* changes position or arrival time; a car update keeps an arrived car
\* unchanged while the time since its arrival is below
\* DELAI_DISPARITION_APRES_ARRIVEE and removes it as soon as it is not.
C28_CycleArrivee ==
    [][/\ \A i \in 1 .. Len(voitures) :
             (voitures[i].temps_arrivee # None /\ voitures[i].id \in Ids(voitures'))
             => /\ VoitureDe(voitures', voitures[i].id).position = voitures[i].position
                /\ VoitureDe(voitures', voitures[i].id).temps_arrivee
                      = voitures[i].temps_arrivee
       /\ pc # "voitures"
          => \A i \in 1 .. Len(voitures) :
                voitures[i].id \in Ids(voitures')
                /\ VoitureDe(voitures', voitures[i].id).temps_arrivee
                      = voitures[i].temps_arrivee
       /\ pc = "voitures"
          => \A i \in 1 .. Len(voitures) :
                LET v == voitures[i]
                IN IF v.temps_arrivee = None
                   THEN /\ v.id \in Ids(voitures')
                        /\ IF v.position = v.destination
                           THEN VoitureDe(voitures', v.id) =
                                   [v EXCEPT !.temps_arrivee = temps,
                                             !.chemin = <<>>,
                                             !.bloquee_depuis = None,
                                             !.recalcul_echecs = 0]
                           ELSE VoitureDe(voitures', v.id).temps_arrivee = None
                   ELSE IF temps - v.temps_arrivee < DELAI_DISPARITION_APRES_ARRIVEE
                   THEN v.id \in Ids(voitures') /\ VoitureDe(voitures', v.id) = v
                   ELSE v.id \notin Ids(voitures')]_vars

\* A car update has just removed a car, DELAI_DISPARITION_APRES_ARRIVEE
\* after it marked its arrival.
C28_Temoin ==
    /\ pc = "regeneration"
    /\ temps >= DELAI_DISPARITION_APRES_ARRIVEE
    /\ \E id \in 1 .. prochain_id_voiture - 1 : id \notin Ids(voitures)

\* the start and the goal of the request are cells of the grid and Road
RequeteValide ==
    /\ DansLimites(grille, requete[1]) /\ DansLimites(grille, requete[2])
    /\ Case(grille, requete[1]) = ROUTE /\ Case(grille, requete[2]) = ROUTE

\* C29 - Planner result shape: a path returned by trouver_chemin starts with
\* the start, ends with the goal, holds no cell twice, has consecutive cells
\* orthogonally adjacent with each step following the one-way direction of
\* the cell left, and has every cell after the first on Road; the planner
\* returns no path when the start or the goal is outside the grid or not
\* Road, also when they are equal, and returns the single cell when start
\* and goal are the same Road cell.
C29_FormeDuResultat ==
    requete # <<>>
    => /\ ~RequeteValide => reponse = <<>>
       /\ (RequeteValide /\ requete[1] = requete[2]) => reponse = <<requete[1]>>
       /\ reponse # <<>>
          => /\ reponse[1] = requete[1]
             /\ reponse[Len(reponse)] = requete[2]
             /\ \A i, j \in 1 .. Len(reponse) : reponse[i] = reponse[j] => i = j
             /\ \A i \in 1 .. Len(reponse) - 1 :
                   /\ heuristique(reponse[i], reponse[i + 1]) = 1
                   /\ PasPermis(lignes_directions, colonnes_directions,
                                reponse[i], reponse[i + 1])
             /\ \A i \in 2 .. Len(reponse) :
                   /\ DansLimites(grille, reponse[i])
                   /\ Case(grille, reponse[i]) = ROUTE

\* The planner returned a path of at least two turns' length between two
\* distinct Road cells of a grid that also has blocked cells.
C29_Temoin ==
    /\ requete # <<>>
    /\ Len(reponse) >= 4
    /\ \E c \in Cellules(grille) : Case(grille, c) # ROUTE

\* C30 - One cell per frame: in every car update each car either keeps its
\* position, and then keeps the path and dernier_deplacement it had when the
\* move resolution started, or moves to the head of that path, which is
\* orthogonally adjacent to its position and a permitted step from it, loses
\* that head from its path and has dernier_deplacement set to the time of
\* the frame; no other step moves a car.
C30_UneCaseParTrame ==
    [][/\ pc = "voitures"
          => /\ Len(voitures') = Len(VoituresAResoudre)
             /\ DOMAIN approved_moves' \subseteq Ids(voitures')
             /\ \A i \in 1 .. Len(VoituresAResoudre) :
                   LET avant == VoituresAResoudre[i]
                       apres == voitures'[i]
                   IN /\ apres.id = avant.id
                      /\ apres.destination = avant.destination
                      /\ IF avant.id \in DOMAIN approved_moves'
                         THEN /\ avant.chemin # <<>>
                              /\ apres.position = avant.chemin[1]
                              /\ approved_moves'[avant.id] = apres.position
                              /\ heuristique(avant.position, apres.position) = 1
                              /\ PasPermis(lignes_directions, colonnes_directions,
                                           avant.position, apres.position)
                              /\ apres.chemin = Tail(avant.chemin)
                              /\ apres.dernier_deplacement = temps
                         ELSE /\ apres.position = avant.position
                              /\ apres.chemin = avant.chemin
                              /\ apres.dernier_deplacement = avant.dernier_deplacement
       /\ pc # "voitures"
          => \A i \in 1 .. Len(voitures) :
                /\ i <= Len(voitures')
                /\ voitures'[i].id = voitures[i].id
                /\ voitures'[i].position = voitures[i].position
                /\ voitures'[i].dernier_deplacement = voitures[i].dernier_deplacement]_vars

\* A car update has just moved one car and refused another that was
\* eligible.
C30_Temoin ==
    /\ pc = "regeneration"
    /\ \E i, j \in EnRoute(voitures) :
          /\ voitures[i].id \in DOMAIN approved_moves
          /\ voitures[i].position = approved_moves[voitures[i].id]
          /\ voitures[i].dernier_deplacement = temps
          /\ voitures[j].id \notin DOMAIN approved_moves
          /\ voitures[j].chemin # <<>>
          /\ temps - voitures[j].dernier_deplacement >= DELAI_MIN_MOUVEMENT

\* C31 - Moves end on Road: in every step, a car whose position changes is,
\* after the step, on a cell of the grid that is Road in the grid of that
\* moment, whatever obstacles were placed before the car update of the frame;
\* and no step creates a car that is not on Road.
C31_MouvementSurRoute ==
    [][\A j \in 1 .. Len(voitures') :
          (\/ voitures'[j].id \notin Ids(voitures)
           \/ VoitureDe(voitures, voitures'[j].id).position # voitures'[j].position)
          => /\ DansLimites(grille', voitures'[j].position)
             /\ Case(grille', voitures'[j].position) = ROUTE]_vars

\* A car update has just run with an obstacle standing on the cell that was
\* on the path of a car: the car, otherwise free to move, has stayed where
\* it was and has no path.
C31_Temoin ==
    /\ pc = "regeneration"
    /\ \E i \in EnRoute(voitures) :
          LET c == histoire[voitures[i].id].invalide
          IN /\ c # <<>>
             /\ Case(grille, c) # ROUTE
             /\ c # voitures[i].destination
             /\ heuristique(voitures[i].position, c) = 1
             /\ voitures[i].chemin = <<>>
             /\ temps - voitures[i].dernier_deplacement >= DELAI_MIN_MOUVEMENT

\* C32 - Minimum move interval: a car update approves a move of a car only
\* when the time since its dernier_deplacement, which is the time of its
\* last move or of its creation, is at least DELAI_MIN_MOUVEMENT; a car is
\* created with dernier_deplacement equal to the time of creation.
C32_DelaiMinimum ==
    [][/\ pc = "voitures"
          => \A i \in 1 .. Len(voitures) :
                LET apres == VoitureDe(voitures', voitures[i].id)
                IN (/\ voitures[i].id \in Ids(voitures')
                    /\ \/ voitures[i].id \in DOMAIN approved_moves'
                       \/ apres.position # voitures[i].position
                       \/ apres.dernier_deplacement # voitures[i].dernier_deplacement)
                   => /\ temps - voitures[i].dernier_deplacement >= DELAI_MIN_MOUVEMENT
                      /\ apres.dernier_deplacement = temps
       /\ \A j \in 1 .. Len(voitures') :
             voitures'[j].id \notin Ids(voitures)
             => voitures'[j].dernier_deplacement = temps]_vars

\* A car update has just left in place a car that moved in an earlier frame
\* less than DELAI_MIN_MOUVEMENT ago, although its next cell is free and
\* open to traffic.
C32_Temoin ==
    /\ pc = "regeneration"
    /\ \E i \in EnRoute(voitures) :
          /\ voitures[i].chemin # <<>>
          /\ voitures[i].dernier_deplacement > 0
          /\ temps - voitures[i].dernier_deplacement > 0
          /\ temps - voitures[i].dernier_deplacement < DELAI_MIN_MOUVEMENT
          /\ voitures[i].id \notin DOMAIN approved_moves
          /\ est_deplacement_valide(voitures[i].chemin[1], feux, pietons_actifs, grille)
          /\ \A j \in 1 .. Len(voitures) : voitures[j].position # voitures[i].chemin[1]

\* C33 - Initial light phase: a light still in the phase it was initialised
\* in at time 0, with remaining duration duree_actuelle, is left unchanged by
\* every update called less than that duration after initialisation, and
\* goes to the next phase in the first update called more than that
\* duration after initialisation.
C33_PhaseInitiale ==
    [][\A i \in 1 .. Len(feux) :
          feux[i].dernier_changement <= 0
          => /\ temps' < feux[i].duree_actuelle => feux'[i] = feux[i]
             /\ temps' > feux[i].duree_actuelle
                => /\ feux'[i].etat = PhaseSuivante(feux[i].etat)
                   /\ feux'[i].dernier_changement = temps']_vars

\* the full duration of phase etat of light feu
DureeDePhase(feu, etat) ==
    IF etat = "vert" THEN feu.duree_vert
    ELSE IF etat = "orange" THEN feu.duree_orange
    ELSE feu.duree_rouge

\* C34 - One transition per update: an update called later than the current
\* phase allows, however late and even when the time since the last change
\* exceeds the durations of the current and of the next phase together,
\* takes the light to the next phase of the cycle only, gives it the full
\* duration of that phase and counts it from the time of the update.
C34_UneTransition ==
    [][\A i \in 1 .. Len(feux) :
          temps' - feux[i].dernier_changement > feux[i].duree_actuelle
          => /\ feux'[i].etat = PhaseSuivante(feux[i].etat)
             /\ feux'[i].duree_actuelle = DureeDePhase(feux[i], feux'[i].etat)
             /\ feux'[i].dernier_changement = temps'
             /\ temps' - feux'[i].dernier_changement <= feux'[i].duree_actuelle]_vars

\* A late update has just taken to red a light that turned orange in an
\* earlier update, longer ago than orange and red last together.
C34_Temoin ==
    /\ journal.op = "pause"
    /\ journal.avant[1].etat = "orange"
    /\ journal.avant[1].dernier_changement > 0
    /\ temps - journal.avant[1].dernier_changement
          > journal.avant[1].duree_orange + journal.avant[1].duree_rouge
    /\ feux[1].etat = "rouge"
    /\ feux[1].dernier_changement = temps

----------------------------------------------------------------------------
(* Pedestrians *)

\* some car of the list, arrived or not, stands on pos
CaseOccupeeParUneVoiture(pos, vs) ==
    \E j \in 1 .. Len(vs) : vs[j].position = pos

\* the pedestrians an update keeps, by the rule of the crossing update: one
\* whose crossing cell holds no car of any status advances by the fixed
\* increment, any other stays as it is, and one that reaches the far side
\* (progress 1, PasDeTraversee increments) is dropped
PietonsAttendus(pietons, vs) ==
    LET suite(p) == IF CaseOccupeeParUneVoiture(p.passage_pos, vs)
                    THEN p ELSE [p EXCEPT !.progres = p.progres + 1]
    IN SelectSeq([i \in 1 .. Len(pietons) |-> suite(pietons[i])],
                 LAMBDA p : p.progres < PasDeTraversee)

\* C35: in every crossing update each active pedestrian advances by the
\* fixed increment exactly when no car of any status (arrived or not) is on
\* its crossing cell and otherwise keeps its progress; a pedestrian whose
\* progress reaches 1 is removed in that update, so every pedestrian that
\* stays active has progress below 1.
C35_AvancePietons ==
    [][pc = "pietons"
       => LET attendus == PietonsAttendus(pietons_actifs, voitures)
          IN /\ Len(pietons_actifs') >= Len(attendus)
             /\ SubSeq(pietons_actifs', 1, Len(attendus)) = attendus
             /\ \A i \in 1 .. Len(pietons_actifs') :
                   pietons_actifs'[i].progres < PasDeTraversee]_vars

\* a crossing update has just left a pedestrian where it was, a car that has
\* not arrived standing on its crossing cell
C35_Temoin ==
    /\ journal.op = "mettre_a_jour_pietons"
    /\ \E i \in 1 .. Len(pietons_actifs) :
          /\ pietons_actifs[i].progres = 1
          /\ voiture_presente_sur_passage(pietons_actifs[i].passage_pos, voitures)

\* C36: a crossing update creates at most one pedestrian, and only on a
\* crossing cell that holds, at that moment, no active pedestrian and no
\* car of any status; so no crossing ever has two active pedestrians, and a
\* new pedestrian starts at progress 0 with the orientation of its crossing.
C36_ApparitionPieton ==
    [][pc = "pietons"
       => LET restants == PietonsAttendus(pietons_actifs, voitures)
              nouveaux == SubSeq(pietons_actifs', Len(restants) + 1,
                                 Len(pietons_actifs'))
          IN /\ Len(nouveaux) <= 1
             /\ \A n \in 1 .. Len(nouveaux) :
                   /\ \E k \in 1 .. Len(passages_pietons) :
                         /\ passages_pietons[k].position = nouveaux[n].passage_pos
                         /\ passages_pietons[k].orientation = nouveaux[n].orientation
                   /\ nouveaux[n].progres = 0
                   /\ \A i \in 1 .. Len(restants) :
                         restants[i].passage_pos # nouveaux[n].passage_pos
                   /\ ~CaseOccupeeParUneVoiture(nouveaux[n].passage_pos, voitures)
             /\ \A i, j \in 1 .. Len(pietons_actifs') :
                   i # j => pietons_actifs'[i].passage_pos
                            # pietons_actifs'[j].passage_pos]_vars

\* a crossing update has just created a pedestrian while a car stood on
\* another cell and every crossing cell was free of cars
C36_Temoin ==
    /\ journal.op = "mettre_a_jour_pietons"
    /\ Len(voitures) > 0
    /\ \E i \in 1 .. Len(pietons_actifs) :
          /\ pietons_actifs[i].progres = 0
          /\ ~CaseOccupeeParUneVoiture(pietons_actifs[i].passage_pos, voitures)

\* C37: in every reachable state no car that has not arrived stands on a
\* crossing cell where a pedestrian is active (progress below 1), whatever
\* the ticks, pedestrian spawns and car spawns that led there.
C37_PassageProtege ==
    \A i \in 1 .. Len(pietons_actifs) :
        pietons_actifs[i].progres < PasDeTraversee
        => ~voiture_presente_sur_passage(pietons_actifs[i].passage_pos, voitures)

----------------------------------------------------------------------------
(* Generation of cars *)

\* the indices, in the list after a step, of the cars the step created
Creees(avant, apres) == {j \in 1 .. Len(apres) : apres[j].id \notin Ids(avant)}

\* pos is a Road cell of the grid, escapable and not the cell of a light
CaseDeGeneration(pos) ==
    /\ DansLimites(grille, pos)
    /\ Case(grille, pos) = ROUTE
    /\ est_case_escapable(pos, grille)
    /\ pos \notin PositionsFeux(feux)

\* C38: every car a spawn attempt creates (initial population or respawn)
\* starts on a cell that is Road, escapable, not a light cell and not held
\* by a car that has not arrived; its destination is Road, escapable, not a
\* light cell and differs from the start; its path is the planner's path
\* from start to destination without the start cell, hence non-empty; its
\* bloquee_depuis and temps_arrivee are unset and its failure count is zero.
C38_VoitureGeneree ==
    [][\A j \in Creees(voitures, voitures') :
          LET v == voitures'[j]
              c == trouver_chemin(grille, v.position, v.destination,
                                  lignes_directions, colonnes_directions)
          IN /\ CaseDeGeneration(v.position)
             /\ \A k \in 1 .. j - 1 :
                   voitures'[k].temps_arrivee = None
                   => voitures'[k].position # v.position
             /\ CaseDeGeneration(v.destination)
             /\ v.destination # v.position
             /\ Len(c) > 1
             /\ c[1] = v.position
             /\ c[Len(c)] = v.destination
             /\ v.chemin = Tail(c)
             /\ v.chemin # <<>>
             /\ v.bloquee_depuis = None
             /\ v.recalcul_echecs = 0
             /\ v.temps_arrivee = None]_vars

\* a respawn has just created a car while another car, not arrived, was on
\* the grid
C38_Temoin ==
    /\ journal.op = "regeneration"
    /\ temps > 0
    /\ \E i, j \in 1 .. Len(voitures) :
          /\ i < j
          /\ voitures[i].temps_arrivee = None
          /\ voitures[j].id = prochain_id_voiture - 1
          /\ voitures[j].id > NOMBRE_VOITURES_CIBLE
          /\ voitures[j].dernier_deplacement = temps
          /\ voitures[j].chemin # <<>>

\* C39: every car created receives an id strictly greater than the id of
\* every car created before it, so the ids of the list are distinct at all
\* times and the id of a retired car is never given again; an attempt that
\* creates no car consumes no id.
C39_IdsUniques ==
    [][LET creees == Creees(voitures, voitures')
       IN /\ prochain_id_voiture' = prochain_id_voiture + Cardinality(creees)
          /\ \A j \in creees :
                /\ voitures'[j].id >= prochain_id_voiture
                /\ \A k \in creees : k < j => voitures'[k].id < voitures'[j].id
          /\ \A j \in 1 .. Len(voitures') : voitures'[j].id < prochain_id_voiture'
          /\ \A j, k \in 1 .. Len(voitures') :
                j # k => voitures'[j].id # voitures'[k].id]_vars

\* a respawn has just created a car after another car was retired: its id
\* is the newest, and an older id is out of the list
C39_Temoin ==
    /\ journal.op = "regeneration"
    /\ \E j \in 1 .. Len(voitures) :
          /\ voitures[j].id = prochain_id_voiture - 1
          /\ voitures[j].dernier_deplacement = temps
    /\ \E id \in 1 .. prochain_id_voiture - 2 : id \notin Ids(voitures)

====
